---- MODULE Spec2Model ----
(***************************************************************************)
(* Verification model of the message-passing sort programs of              *)
(* hpc-benchmarks: shearsort.c (shear sort) and oetsort.c (2-dimensional   *)
(* odd-even transposition sort).                                           *)
(*                                                                         *)
(* C arrays are functions over 0..length-1, so that indices are the        *)
(* source's indices.  The word in front of a band (index -1), which        *)
(* shearsort.c's sort() and rsort() read and write, is part of the memory  *)
(* image the two operators work on.                                        *)
(***************************************************************************)
EXTENDS Integers, Sequences, FiniteSets, TLC

\* ---------------------------------------------------------------- bounds
\* Matrix cells and outside words are drawn from 0..MaxVal.
MaxVal == 1
\* Largest number of processes launched (mpirun -np).
MaxProcs == 3
\* Longest band given to the row sorters on their own (SpecFn).
MaxLen == 4
\* Largest element of such a band.
MaxElem == 2

\* ------------------------------------------------------- program constants
MASTER == 0
COLUMN_TAG == 0
ROW_TAG == 1
IS_SORTED_TAG == 1

Values == 0..MaxVal
Elems == 0..MaxElem

\* ------------------------------------------------------------- row sorters
\* All bands of the given length over the given set of values.
Bands(length, S) == [0..(length - 1) -> S]

\* temp = row[a]; row[a] = row[b]; row[b] = temp
Swap(row, a, b) == [row EXCEPT ![a] = row[b], ![b] = row[a]]

\* The memory image sort()/rsort() work on: the band at 0..length-1 and the
\* word in front of it at index -1.
Image(band, length, outside) ==
  [k \in (-1)..(length - 1) |-> IF k = -1 THEN outside ELSE band[k]]

BandOf(image, length) == [k \in 0..(length - 1) |-> image[k]]

\* shearsort.c sort(): the inner loop runs j from length-1 down to 0 and
\* compares row[j-1] with row[j], so its last iteration compares row[-1]
\* with row[0].
RECURSIVE sortInner(_, _)
sortInner(row, j) ==
  IF j >= 0
  THEN sortInner(IF row[j - 1] > row[j] THEN Swap(row, j - 1, j) ELSE row, j - 1)
  ELSE row

RECURSIVE sortOuter(_, _, _)
sortOuter(row, i, length) ==
  IF i < length
  THEN sortOuter(sortInner(row, length - 1), i + 1, length)
  ELSE row

sort(row, length) == sortOuter(row, 0, length)

\* shearsort.c rsort(): as sort(), with the comparison reversed.
RECURSIVE rsortInner(_, _)
rsortInner(row, j) ==
  IF j >= 0
  THEN rsortInner(IF row[j - 1] < row[j] THEN Swap(row, j - 1, j) ELSE row, j - 1)
  ELSE row

RECURSIVE rsortOuter(_, _, _)
rsortOuter(row, i, length) ==
  IF i < length
  THEN rsortOuter(rsortInner(row, length - 1), i + 1, length)
  ELSE row

rsort(row, length) == rsortOuter(row, 0, length)

\* oetsort.c: one pass over the pairs (i, i+1), i = from, from+2, ...
RECURSIVE PairPassAsc(_, _, _)
PairPassAsc(row, i, length) ==
  IF i < length - 1
  THEN PairPassAsc(IF row[i + 1] < row[i] THEN Swap(row, i, i + 1) ELSE row,
                   i + 2, length)
  ELSE row

RECURSIVE PairPassDesc(_, _, _)
PairPassDesc(row, i, length) ==
  IF i < length - 1
  THEN PairPassDesc(IF row[i + 1] > row[i] THEN Swap(row, i, i + 1) ELSE row,
                    i + 2, length)
  ELSE row

\* oetsort.c: the pairs <<i, i + 1>> the loop of a pass visits,
\* for (i = from; i < length - 1; i += 2).
RECURSIVE PairPassVisits(_, _)
PairPassVisits(i, length) ==
  IF i < length - 1 THEN {<<i, i + 1>>} \cup PairPassVisits(i + 2, length) ELSE {}

esortFromOne(row, length) == PairPassAsc(row, 1, length)
esort(row, length) == PairPassAsc(row, 0, length)
ersort(row, length) == PairPassDesc(row, 0, length)
osortFromZero(row, length) == PairPassAsc(row, 0, length)
osort(row, length) == PairPassAsc(row, 1, length)
orsort(row, length) == PairPassDesc(row, 1, length)

\* ------------------------------------------------------ order and content
Ascending(band, length) ==
  \A k \in 0..(length - 2) : band[k] <= band[k + 1]

Descending(band, length) ==
  \A k \in 0..(length - 2) : band[k] >= band[k + 1]

Count(band, length, v) == Cardinality({k \in 0..(length - 1) : band[k] = v})

SameElements(a, b, length) ==
  \A v \in {a[k] : k \in 0..(length - 1)} \cup {b[k] : k \in 0..(length - 1)} :
    Count(a, length, v) = Count(b, length, v)


\* ------------------------------------------------------------- command line
\* An argument is a sequence of characters; atoi() skips leading blanks, takes
\* an optional sign and then the longest run of digits (none gives 0).
Digits == <<"0", "1", "2", "3", "4", "5", "6", "7", "8", "9">>

IsDigit(c) == \E d \in 1..10 : Digits[d] = c

DigitVal(c) == (CHOOSE d \in 1..10 : Digits[d] = c) - 1

RECURSIVE atoiDigits(_, _, _)
atoiDigits(s, k, acc) ==
  IF k <= Len(s) /\ IsDigit(s[k])
  THEN atoiDigits(s, k + 1, 10 * acc + DigitVal(s[k]))
  ELSE acc

RECURSIVE atoiFrom(_, _)
atoiFrom(s, k) ==
  IF k > Len(s) THEN 0
  ELSE IF s[k] = " " THEN atoiFrom(s, k + 1)
  ELSE IF s[k] = "-" THEN -atoiDigits(s, k + 1, 0)
  ELSE IF s[k] = "+" THEN atoiDigits(s, k + 1, 0)
  ELSE atoiDigits(s, k, 0)

atoi(s) == atoiFrom(s, 1)

\* The decimal form of 1..9.
Decimal(n) == <<Digits[n + 1]>>

\* The command lines tried: no argument, a dimension 1..MaxDim, and arguments
\* that are not a positive integer or carry trailing characters.
MaxDim == 3

ArgStrings ==
  {Decimal(n) : n \in 1..MaxDim}
    \cup {<<"0">>, <<"-", "2">>, <<"x">>, <<" ", "2">>, <<"2", "x">>}

CommandLines == {<<>>} \cup {<<a>> : a \in ArgStrings}

\* C's % and / truncate towards zero; the divisor is positive here.
CRem(a, b) == IF a >= 0 THEN a % b ELSE -((-a) % b)
CDiv(a, b) == IF a >= 0 THEN a \div b ELSE -((-a) \div b)

\* (int) ceil(log((double) DIMENSION) / log(2.0)) for DIMENSION >= 1.
RECURSIVE CeilLog2From(_, _, _)
CeilLog2From(d, k, pow) ==
  IF pow >= d THEN k ELSE CeilLog2From(d, k + 1, 2 * pow)

CeilLog2(d) == CeilLog2From(d, 0, 1)


\* ================================================================== state
VARIABLES
  prog,                 \* "shearsort" or "oetsort": the program launched
  args,                 \* argv[1..argc-1], the same for every rank
  nprocs,               \* size of the process group (mpirun -np)
  faults,               \* TRUE when MPI calls and calloc may fail
  eager,                \* TRUE when MPI_Send buffers, FALSE when it waits for the receiver
  pc,                   \* pc[r]: where rank r is in main()
  exitCode,             \* exitCode[r]: exit status of rank r once pc[r] = "exited"
  mpi,                  \* mpi[r]: "none" (before MPI_Init), "up", "finalized"
  mpiErr,               \* mpiErr[r]: an MPI call of rank r returned nonzero
  allocated,            \* allocated[r]: matrix and numbers of rank r exist
  DIMENSION,            \* per rank
  NUMBER_OF_PROCESSES,  \* per rank
  PROCESS_ID,           \* per rank: what the variable PROCESS_ID holds
  matrix,               \* the master's matrix, <<>> until initialize()
  numbers,              \* numbers[r]: the band buffer of rank r, <<>> until filled
  program_counter,      \* shearsort: loop counter of rank r
  i,                    \* oetsort: row loop counter of rank r
  j,                    \* oetsort: column loop counter of rank r
  destination,          \* master
  source,               \* master
  current_row,          \* oetsort master
  current_column,       \* oetsort master
  previous_row,         \* oetsort master
  previous_column,      \* oetsort master
  is_sorted,            \* is_sorted[r]: 1 (TRUE), 0 (FALSE)
  chan,                 \* chan[<<s, d>>]: messages sent by s to d and not yet received
  counter,              \* number of passes (super-steps) the master has begun
  checks,               \* number of diagonal checks the master has made
  summary,              \* the master has printed the summary
  layout,               \* oetsort: the variable the build has put right after is_sorted
  flags_read,           \* oetsort: flags_read[r], the flags worker r has received so far
  matrixA,              \* mm: the master's matrix A, <<>> until initialize()
  matrixB,              \* mm: matrixB[r], the matrix B of rank r, <<>> until filled
  matrixC,              \* mm: the master's matrix C as it lies in memory, row after row
  rowA,                 \* mm: rowA[r], the row of A rank r has received
  results,              \* mm: results[r], the row of C rank r has computed
  rands,                \* sndrcv: rands[r], what rand() returns at rank r, call after call
  head,                 \* sndrcv: head[r], the head rank r has drawn for its run
  times,                \* sndrcv: times[k], where the master got the runtime of run k from
  barrier,              \* the ranks that have called MPI_Barrier
  band,                 \* SpecFn: the band the row sorters are applied to
  input,                \* SpecFn: the band as first given
  calls,                \* SpecFn: the row sorter called so far and how often
  compared              \* SpecCheck: the cells (r, c) the check has compared with (r+1, c+1)

sortVars ==
  <<prog, args, nprocs, faults, eager, pc, exitCode, mpi, mpiErr, allocated,
    DIMENSION, NUMBER_OF_PROCESSES, matrix, numbers, program_counter, i, j,
    destination, source, current_row, current_column, previous_row,
    previous_column, is_sorted, chan, counter, checks, summary,
    PROCESS_ID, layout, flags_read,
    matrixA, matrixB, matrixC, rowA, results, rands, head, times, barrier>>

fnVars == <<band, input, calls, compared>>

vars == <<sortVars, fnVars>>

Ranks == 0..(nprocs - 1)

\* ---------------------------------------------------------------- startup
\* What the code from the top of main() to the MASTER/WORKERS branch does at
\* one rank.  rc holds the return codes of the five MPI calls, garbage the
\* value NUMBER_OF_PROCESSES has when MPI_Comm_size did not set it, vla the
\* outcome of declaring an array of negative length, callocOk whether calloc
\* of a valid size succeeds.
Outcome(p, code, m, alloc, err, dim, np) ==
  [pc |-> p, code |-> code, mpi |-> m, alloc |-> alloc, err |-> err,
   dim |-> dim, np |-> np]

\* shearsort.c: if ((DIMENSION = atoi(argv[1])) <= 0)
ShearBadDimension(dim) == dim <= 0

\* oetsort.c: if ((DIMENSION = atoi(argv[1])) == 0)
OetBadDimension(dim) == dim = 0

\* shearsort.c: if (DIMENSION != NUMBER_OF_PROCESSES)
ShearBadCountLess(dim, np) == dim < np
ShearBadCount(dim, np) == dim # np

\* oetsort.c: if (DIMENSION % NUMBER_OF_PROCESSES != 0)
OetBadCount(dim, np) == CRem(dim, np) # 0

\* error_code is assigned by each call and tested after the last one only.
InitErrorCode(rc) == rc.rank
TypeErrorCode(rc) == rc.commit

StartupShear(a, rc, np) ==
  IF Len(a) + 1 # 2 THEN Outcome("exited", 1, "none", FALSE, FALSE, 0, 0)
  ELSE LET dim == atoi(a[1]) IN
  IF ShearBadDimension(dim) THEN Outcome("exited", 1, "none", FALSE, FALSE, dim, 0)
  ELSE LET err1 == rc.init # 0 \/ rc.size # 0 \/ rc.rank # 0 IN
  IF InitErrorCode(rc) # 0 THEN Outcome("exited", 1, "finalized", FALSE, err1, dim, np)
  ELSE IF ShearBadCount(dim, np) THEN Outcome("exited", 1, "finalized", FALSE, err1, dim, np)
  ELSE LET err2 == err1 \/ rc.vector # 0 \/ rc.commit # 0 IN
  IF TypeErrorCode(rc) # 0 THEN Outcome("exited", 1, "finalized", TRUE, err2, dim, np)
  ELSE Outcome("run", 0, "up", TRUE, err2, dim, np)

StartupOet(a, rc, np, vla, callocOk) ==
  IF Len(a) + 1 # 2 THEN Outcome("exited", 1, "none", FALSE, FALSE, 0, 0)
  ELSE LET dim == atoi(a[1]) IN
  IF OetBadDimension(dim) THEN Outcome("exited", 1, "none", FALSE, FALSE, dim, 0)
  ELSE LET err1 == rc.init # 0 \/ rc.size # 0 \/ rc.rank # 0 IN
  IF InitErrorCode(rc) # 0 THEN Outcome("exited", 1, "finalized", FALSE, err1, dim, np)
  ELSE IF np = 0 THEN Outcome("crashed", 0, "up", FALSE, err1, dim, np)
  ELSE IF OetBadCount(dim, np) THEN Outcome("exited", 1, "finalized", FALSE, err1, dim, np)
  ELSE IF dim < 0 /\ vla = "crash" THEN Outcome("crashed", 0, "up", FALSE, err1, dim, np)
  ELSE IF dim < 0 \/ ~callocOk THEN Outcome("exited", 1, "finalized", TRUE, err1, dim, np)
  ELSE LET err2 == err1 \/ rc.vector # 0 \/ rc.commit # 0 IN
  IF TypeErrorCode(rc) # 0 THEN Outcome("exited", 1, "finalized", TRUE, err2, dim, np)
  ELSE Outcome("run", 0, "up", TRUE, err2, dim, np)

ReturnCodes == IF faults THEN {0, 1} ELSE {0}

RcSets ==
  [init : ReturnCodes, size : ReturnCodes, rank : ReturnCodes,
   vector : ReturnCodes, commit : ReturnCodes]


\* The launch, and the state of mm and sndrcv with the barrier, which the sort
\* programs do not touch.
build == <<prog, args, nprocs, faults, eager, layout>>
launch == <<build, flags_read>>
mmVars == <<matrixA, matrixB, matrixC, rowA, results>>
ringVars == <<rands, head, times>>
cfg == <<launch, mmVars, ringVars, barrier>>
setup == <<mpiErr, allocated, DIMENSION, NUMBER_OF_PROCESSES, PROCESS_ID>>
exits == <<exitCode, mpi, summary>>
oetIdx == <<i, j, current_row, current_column, previous_row, previous_column>>

\* Where a rank goes once startup has succeeded.
\* shearsort.c: for (program_counter = 0; program_counter < (int) ceil(...); ...)
ShearMasterLoopInclusive(pcnt, dim) ==
  IF pcnt <= CeilLog2(dim) THEN "row_send" ELSE "final_send"
ShearMasterLoop(pcnt, dim) == IF pcnt < CeilLog2(dim) THEN "row_send" ELSE "final_send"
ShearWorkerLoop(pcnt, dim) == IF pcnt < CeilLog2(dim) THEN "w_row_recv" ELSE "w_final_recv"

FirstPc(program, r, dim) ==
  IF r = MASTER THEN "initialize"
  ELSE IF program = "shearsort" THEN ShearWorkerLoop(0, dim)
  ELSE "ow_row_recv"

Startup(r) ==
  /\ pc[r] = "start"
  /\ \E rc \in RcSets, garbage \in (IF faults THEN 0..MaxProcs ELSE {0}),
        vla \in {"crash", "continue"}, callocOk \in {TRUE} \cup {~faults} :
       LET np == IF rc.size = 0 THEN nprocs ELSE garbage
           out == IF prog = "shearsort"
                  THEN StartupShear(args, rc, np)
                  ELSE StartupOet(args, rc, np, vla, callocOk)
       IN /\ pc' = [pc EXCEPT ![r] = IF out.pc = "run"
                                      THEN FirstPc(prog, r, out.dim)
                                      ELSE out.pc]
          /\ exitCode' = [exitCode EXCEPT ![r] = out.code]
          /\ mpi' = [mpi EXCEPT ![r] = out.mpi]
          /\ mpiErr' = [mpiErr EXCEPT ![r] = out.err]
          /\ allocated' = [allocated EXCEPT ![r] = out.alloc]
          /\ DIMENSION' = [DIMENSION EXCEPT ![r] = out.dim]
          /\ NUMBER_OF_PROCESSES' = [NUMBER_OF_PROCESSES EXCEPT ![r] = out.np]
          /\ PROCESS_ID' = [PROCESS_ID EXCEPT ![r] = IF rc.rank = 0 THEN r ELSE @]
  /\ UNCHANGED <<cfg, matrix, numbers, program_counter, oetIdx, destination,
                 source, is_sorted, chan, counter, checks, summary, fnVars>>

\* -------------------------------------------------------------- messaging
\* A message carries its tag, what the sender packed (kind and count are kept
\* for the record) and the data.
Msg(tag, kind, count, data) ==
  [tag |-> tag, kind |-> kind, count |-> count, data |-> data]

RECURSIVE FirstWithTagFrom(_, _, _)
FirstWithTagFrom(q, tag, k) ==
  IF k > Len(q) THEN 0
  ELSE IF q[k].tag = tag THEN k
  ELSE FirstWithTagFrom(q, tag, k + 1)

\* The latest message of the source that carries the tag; 0 when there is
\* none.
LastWithTag(q, tag) ==
  IF \E k \in 1..Len(q) : q[k].tag = tag
  THEN CHOOSE k \in 1..Len(q) : q[k].tag = tag /\ \A n \in (k + 1)..Len(q) : q[n].tag # tag
  ELSE 0

\* MPI matches a receive with the earliest message of the source that carries
\* the tag asked for; 0 when there is none.
FirstWithTag(q, tag) == FirstWithTagFrom(q, tag, 1)

Without(q, k) == [n \in 1..(Len(q) - 1) |-> IF n < k THEN q[n] ELSE q[n + 1]]

\* The receive rank r is blocked in: <<source, tag>>, or <<>> when it is not
\* in a receive.
Posted(r) ==
  IF r = MASTER
  THEN IF pc[r] \in {"row_recv", "final_recv", "o_row_recv", "mm_recv"}
            /\ source < NUMBER_OF_PROCESSES[r]
       THEN <<source, ROW_TAG>>
       ELSE IF pc[r] \in {"col_recv", "o_col_recv"} /\ source < NUMBER_OF_PROCESSES[r]
       THEN <<source, COLUMN_TAG>>
       ELSE <<>>
  ELSE IF pc[r] \in {"w_row_recv", "w_final_recv", "ow_row_recv", "mw_row_recv"}
       THEN <<MASTER, ROW_TAG>>
  ELSE IF pc[r] \in {"w_col_recv", "ow_col_recv", "mw_b_recv"} THEN <<MASTER, COLUMN_TAG>>
  ELSE IF pc[r] = "ow_flag_recv" THEN <<MASTER, IS_SORTED_TAG>>
  ELSE <<>>

\* A rendezvous send that returns only while the destination has no receive
\* posted.
CanSendWhenIdle(s, d, tag) ==
  /\ d \in Ranks
  /\ eager \/ (chan[<<s, d>>] = <<>> /\ Posted(d) = <<>>)

\* MPI_Send returns at once when the message is buffered, and otherwise when
\* the receiver has posted the matching receive.
CanSend(s, d, tag) ==
  /\ d \in Ranks
  /\ eager \/ (chan[<<s, d>>] = <<>> /\ Posted(d) = <<s, tag>>)

\* A send that delivers every message to the controller.
SentToMaster(s, d, m) == [chan EXCEPT ![<<s, MASTER>>] = Append(@, m)]

Sent(s, d, m) == [chan EXCEPT ![<<s, d>>] = Append(@, m)]

CanRecv(s, d, tag) == s \in Ranks /\ FirstWithTag(chan[<<s, d>>], tag) # 0

Arrived(s, d, tag) == chan[<<s, d>>][FirstWithTag(chan[<<s, d>>], tag)]

\* The channel with the message left in it.
TakenNothing(s, d, tag) == chan

\* The channel once the receive of d has taken the message it matches.
Taken(s, d, tag) ==
  [chan EXCEPT ![<<s, d>>] = Without(@, FirstWithTag(@, tag))]

\* ------------------------------------------------------------------ matrix
Matrices(dim) == [0..(dim - 1) -> Bands(dim, Values)]

\* The element at offset idx from &matrix[0][0].
Flat(m, dim, idx) == m[idx \div dim][idx % dim]

ExtractRow(m, r) == m[r]

DepositRow(m, r, b) == [m EXCEPT ![r] = b]

\* MPI_Type_vector(DIMENSION, 1, DIMENSION, MPI_INT): DIMENSION single
\* elements, DIMENSION apart, from &matrix[0][c].
ExtractColumn(m, dim, c) == [k \in 0..(dim - 1) |-> Flat(m, dim, c + k * dim)]

DepositColumn(m, dim, c, b) ==
  [r \in 0..(dim - 1) |-> [cc \in 0..(dim - 1) |-> IF cc = c THEN b[r] ELSE m[r][cc]]]

\* The diagonal check of both programs; each loop stops at the first
\* violation (is_sorted == TRUE is part of every loop condition).
RECURSIVE WalkDown(_, _, _, _)
WalkDown(m, dim, r, c) ==
  IF r < dim - 1
  THEN IF m[r][c] > m[r + 1][c + 1] THEN FALSE ELSE WalkDown(m, dim, r + 1, c + 1)
  ELSE TRUE

RECURSIVE WalkRight(_, _, _, _)
WalkRight(m, dim, r, c) ==
  IF c < dim - 1
  THEN IF m[r][c] > m[r + 1][c + 1] THEN FALSE ELSE WalkRight(m, dim, r + 1, c + 1)
  ELSE TRUE

RECURSIVE BelowMain(_, _, _)
BelowMain(m, dim, k) ==
  IF k < dim - 1
  THEN IF WalkDown(m, dim, k, 0) THEN BelowMain(m, dim, k + 1) ELSE FALSE
  ELSE TRUE

RECURSIVE AboveMain(_, _, _)
AboveMain(m, dim, k) ==
  IF k < dim - 1
  THEN IF WalkRight(m, dim, 0, k) THEN AboveMain(m, dim, k + 1) ELSE FALSE
  ELSE TRUE

DiagonalCheck(m, dim) ==
  IF BelowMain(m, dim, 0) /\ AboveMain(m, dim, 0) THEN 1 ELSE 0

\* Passes are counted up to MaxPasses.
MaxPasses == 6
Counted(n) == IF n < MaxPasses THEN n + 1 ELSE n


\* ============================================================== shearsort
\* The words that may stand in front of a band.
OutsideWords == Values

\* sort(band, length) / rsort(band, length) as main() calls them: the band
\* afterwards, given the word in front of it.
SortedBand(b, length, outside) == BandOf(sort(Image(b, length, outside), length), length)
RSortedBand(b, length, outside) == BandOf(rsort(Image(b, length, outside), length), length)

\* shearsort.c worker: if (PROCESS_ID % 2 == 0) sort(...) else rsort(...)
ShearWorkerRow(r, b, length, outside) ==
  IF r % 2 = 0 THEN SortedBand(b, length, outside) ELSE RSortedBand(b, length, outside)

\* shearsort.c worker, column phase: sort(numbers, DIMENSION) whatever the rank.
ShearWorkerColumnByParity(r, b, length, outside) == ShearWorkerRow(r, b, length, outside)
ShearWorkerColumn(r, b, length, outside) == SortedBand(b, length, outside)

\* shearsort.c: if (is_sorted == TRUE) ... else { ...; MPI_Finalize(); exit(1); }
ShearVerdictIgnored(sorted) == "report"
ShearVerdict(sorted) == IF sorted = 1 THEN "report" ELSE "exited"

shearIdle == <<cfg, setup, oetIdx, fnVars>>

ShearInitialize ==
  /\ prog = "shearsort"
  /\ pc[MASTER] = "initialize"
  /\ matrix' \in Matrices(DIMENSION[MASTER])
  /\ program_counter' = [program_counter EXCEPT ![MASTER] = 0]
  /\ pc' = [pc EXCEPT ![MASTER] = ShearMasterLoop(0, DIMENSION[MASTER])]
  /\ counter' = IF CeilLog2(DIMENSION[MASTER]) > 0 THEN Counted(counter) ELSE counter
  /\ destination' = 1
  /\ UNCHANGED <<shearIdle, exits, numbers, source, is_sorted, chan, checks>>

\* for (destination = 1; ...) MPI_Send(&matrix[destination][0], DIMENSION, MPI_INT, ...)
ShearRowSend(at, then) ==
  /\ prog = "shearsort"
  /\ pc[MASTER] = at
  /\ IF destination < NUMBER_OF_PROCESSES[MASTER]
     THEN /\ CanSend(MASTER, destination, ROW_TAG)
          /\ chan' = Sent(MASTER, destination,
                          Msg(ROW_TAG, "row", DIMENSION[MASTER],
                              ExtractRow(matrix, destination)))
          /\ destination' = destination + 1
          /\ UNCHANGED <<pc, source>>
     ELSE /\ pc' = [pc EXCEPT ![MASTER] = then]
          /\ source' = 1
          /\ UNCHANGED <<chan, destination>>
  /\ UNCHANGED <<shearIdle, exits, matrix, numbers, program_counter, is_sorted,
                 counter, checks>>

\* for (source = 1; ...) MPI_Recv(&matrix[source][0], DIMENSION, MPI_INT, source, ROW_TAG, ...)
ShearRowRecv(at, then) ==
  /\ prog = "shearsort"
  /\ pc[MASTER] = at
  /\ IF source < NUMBER_OF_PROCESSES[MASTER]
     THEN /\ CanRecv(source, MASTER, ROW_TAG)
          /\ matrix' = DepositRow(matrix, source, Arrived(source, MASTER, ROW_TAG).data)
          /\ chan' = Taken(source, MASTER, ROW_TAG)
          /\ source' = source + 1
          /\ UNCHANGED pc
     ELSE /\ pc' = [pc EXCEPT ![MASTER] = then]
          /\ UNCHANGED <<chan, matrix, source>>
  /\ UNCHANGED <<shearIdle, exits, numbers, program_counter, destination,
                 is_sorted, counter, checks>>

\* sort(&matrix[0][0], DIMENSION);
ShearRowSort ==
  /\ prog = "shearsort"
  /\ pc[MASTER] = "row_sort"
  /\ \E outside \in OutsideWords :
       matrix' = DepositRow(matrix, 0, SortedBand(matrix[0], DIMENSION[MASTER], outside))
  /\ pc' = [pc EXCEPT ![MASTER] = "col_send"]
  /\ destination' = 1
  /\ UNCHANGED <<shearIdle, exits, numbers, program_counter, source, is_sorted,
                 chan, counter, checks>>

\* MPI_Send(&matrix[0][destination], 1, column_type, destination, COLUMN_TAG, ...)
ShearColSend ==
  /\ prog = "shearsort"
  /\ pc[MASTER] = "col_send"
  /\ IF destination < NUMBER_OF_PROCESSES[MASTER]
     THEN /\ CanSend(MASTER, destination, COLUMN_TAG)
          /\ chan' = Sent(MASTER, destination,
                          Msg(COLUMN_TAG, "col", DIMENSION[MASTER],
                              ExtractColumn(matrix, DIMENSION[MASTER], destination)))
          /\ destination' = destination + 1
          /\ UNCHANGED <<pc, source>>
     ELSE /\ pc' = [pc EXCEPT ![MASTER] = "col_recv"]
          /\ source' = 1
          /\ UNCHANGED <<chan, destination>>
  /\ UNCHANGED <<shearIdle, exits, matrix, numbers, program_counter, is_sorted,
                 counter, checks>>

\* MPI_Recv(&numbers, DIMENSION, MPI_INT, source, COLUMN_TAG, ...);
\* for (i ...) matrix[i][source] = numbers[i];
ShearColRecv ==
  /\ prog = "shearsort"
  /\ pc[MASTER] = "col_recv"
  /\ IF source < NUMBER_OF_PROCESSES[MASTER]
     THEN /\ CanRecv(source, MASTER, COLUMN_TAG)
          /\ numbers' = [numbers EXCEPT ![MASTER] = Arrived(source, MASTER, COLUMN_TAG).data]
          /\ matrix' = DepositColumn(matrix, DIMENSION[MASTER], source, numbers'[MASTER])
          /\ chan' = Taken(source, MASTER, COLUMN_TAG)
          /\ source' = source + 1
          /\ UNCHANGED pc
     ELSE /\ pc' = [pc EXCEPT ![MASTER] = "col_sort"]
          /\ UNCHANGED <<chan, matrix, numbers, source>>
  /\ UNCHANGED <<shearIdle, exits, program_counter, destination, is_sorted,
                 counter, checks>>

\* numbers[i] = matrix[i][0]; sort(numbers, DIMENSION); matrix[i][0] = numbers[i];
\* then program_counter++ and the loop test.
ShearColSort ==
  /\ prog = "shearsort"
  /\ pc[MASTER] = "col_sort"
  /\ \E outside \in OutsideWords :
       LET dim == DIMENSION[MASTER]
           sorted == SortedBand([k \in 0..(dim - 1) |-> matrix[k][0]], dim, outside)
           next == ShearMasterLoop(program_counter[MASTER] + 1, dim)
       IN /\ numbers' = [numbers EXCEPT ![MASTER] = sorted]
          /\ matrix' = DepositColumn(matrix, dim, 0, sorted)
          /\ pc' = [pc EXCEPT ![MASTER] = next]
          /\ counter' = IF next = "row_send" THEN Counted(counter) ELSE counter
  /\ program_counter' = [program_counter EXCEPT ![MASTER] = @ + 1]
  /\ destination' = 1
  /\ UNCHANGED <<shearIdle, exits, source, is_sorted, chan, checks>>

\* The diagonal check and what follows it.
ShearCheck ==
  /\ prog = "shearsort"
  /\ pc[MASTER] = "check"
  /\ LET sorted == DiagonalCheck(matrix, DIMENSION[MASTER])
         next == ShearVerdict(sorted)
     IN /\ is_sorted' = [is_sorted EXCEPT ![MASTER] = sorted]
        /\ pc' = [pc EXCEPT ![MASTER] = next]
        /\ exitCode' = [exitCode EXCEPT ![MASTER] = IF next = "exited" THEN 1 ELSE @]
        /\ mpi' = [mpi EXCEPT ![MASTER] = IF next = "exited" THEN "finalized" ELSE @]
  /\ checks' = checks + 1
  /\ UNCHANGED <<shearIdle, summary, matrix, numbers, program_counter, destination,
                 source, chan, counter>>

\* The summary, MPI_Finalize() and return 0.
Report ==
  /\ pc[MASTER] = "report"
  /\ summary' = TRUE
  /\ pc' = [pc EXCEPT ![MASTER] = "exited"]
  /\ exitCode' = [exitCode EXCEPT ![MASTER] = 0]
  /\ mpi' = [mpi EXCEPT ![MASTER] = "finalized"]
  /\ UNCHANGED <<shearIdle, matrix, numbers, program_counter, destination, source,
                 is_sorted, chan, counter, checks>>

\* Worker: MPI_Recv(&numbers, ..., MASTER, ROW_TAG, ...) and the sort after it.
ShearWorkerRowRecv(r) ==
  /\ prog = "shearsort"
  /\ r # MASTER
  /\ pc[r] = "w_row_recv"
  /\ CanRecv(MASTER, r, ROW_TAG)
  /\ \E outside \in OutsideWords :
       numbers' = [numbers EXCEPT ![r] =
                     ShearWorkerRow(r, Arrived(MASTER, r, ROW_TAG).data, DIMENSION[r], outside)]
  /\ chan' = Taken(MASTER, r, ROW_TAG)
  /\ pc' = [pc EXCEPT ![r] = "w_row_send"]
  /\ UNCHANGED <<shearIdle, exits, matrix, program_counter, destination, source,
                 is_sorted, counter, checks>>

ShearWorkerRowSend(r) ==
  /\ prog = "shearsort"
  /\ r # MASTER
  /\ pc[r] = "w_row_send"
  /\ CanSend(r, MASTER, ROW_TAG)
  /\ chan' = Sent(r, MASTER, Msg(ROW_TAG, "row", DIMENSION[r], numbers[r]))
  /\ pc' = [pc EXCEPT ![r] = "w_col_recv"]
  /\ UNCHANGED <<shearIdle, exits, matrix, numbers, program_counter, destination,
                 source, is_sorted, counter, checks>>

ShearWorkerColRecv(r) ==
  /\ prog = "shearsort"
  /\ r # MASTER
  /\ pc[r] = "w_col_recv"
  /\ CanRecv(MASTER, r, COLUMN_TAG)
  /\ \E outside \in OutsideWords :
       numbers' = [numbers EXCEPT ![r] =
                     ShearWorkerColumn(r, Arrived(MASTER, r, COLUMN_TAG).data,
                                       DIMENSION[r], outside)]
  /\ chan' = Taken(MASTER, r, COLUMN_TAG)
  /\ pc' = [pc EXCEPT ![r] = "w_col_send"]
  /\ UNCHANGED <<shearIdle, exits, matrix, program_counter, destination, source,
                 is_sorted, counter, checks>>

ShearWorkerColSend(r) ==
  /\ prog = "shearsort"
  /\ r # MASTER
  /\ pc[r] = "w_col_send"
  /\ CanSend(r, MASTER, COLUMN_TAG)
  /\ chan' = Sent(r, MASTER, Msg(COLUMN_TAG, "col", DIMENSION[r], numbers[r]))
  /\ program_counter' = [program_counter EXCEPT ![r] = @ + 1]
  /\ pc' = [pc EXCEPT ![r] = ShearWorkerLoop(program_counter[r] + 1, DIMENSION[r])]
  /\ UNCHANGED <<shearIdle, exits, matrix, numbers, destination, source, is_sorted,
                 counter, checks>>

\* The last row phase of a worker: sort(numbers, DIMENSION) whatever the rank.
ShearWorkerFinalRecv(r) ==
  /\ prog = "shearsort"
  /\ r # MASTER
  /\ pc[r] = "w_final_recv"
  /\ CanRecv(MASTER, r, ROW_TAG)
  /\ \E outside \in OutsideWords :
       numbers' = [numbers EXCEPT ![r] =
                     SortedBand(Arrived(MASTER, r, ROW_TAG).data, DIMENSION[r], outside)]
  /\ chan' = Taken(MASTER, r, ROW_TAG)
  /\ pc' = [pc EXCEPT ![r] = "w_final_send"]
  /\ UNCHANGED <<shearIdle, exits, matrix, program_counter, destination, source,
                 is_sorted, counter, checks>>

\* The last send of a worker, then MPI_Finalize() and return 0.
ShearWorkerFinalSend(r) ==
  /\ prog = "shearsort"
  /\ r # MASTER
  /\ pc[r] = "w_final_send"
  /\ CanSend(r, MASTER, ROW_TAG)
  /\ chan' = Sent(r, MASTER, Msg(ROW_TAG, "row", DIMENSION[r], numbers[r]))
  /\ pc' = [pc EXCEPT ![r] = "exited"]
  /\ exitCode' = [exitCode EXCEPT ![r] = 0]
  /\ mpi' = [mpi EXCEPT ![r] = "finalized"]
  /\ UNCHANGED <<shearIdle, summary, matrix, numbers, program_counter, destination,
                 source, is_sorted, counter, checks>>

ShearMaster ==
  \/ ShearInitialize
  \/ ShearRowSend("row_send", "row_recv")
  \/ ShearRowRecv("row_recv", "row_sort")
  \/ ShearRowSort
  \/ ShearColSend
  \/ ShearColRecv
  \/ ShearColSort
  \/ ShearRowSend("final_send", "final_recv")
  \/ ShearRowRecv("final_recv", "check")
  \/ ShearCheck

ShearWorker(r) ==
  \/ ShearWorkerRowRecv(r)
  \/ ShearWorkerRowSend(r)
  \/ ShearWorkerColRecv(r)
  \/ ShearWorkerColSend(r)
  \/ ShearWorkerFinalRecv(r)
  \/ ShearWorkerFinalSend(r)

\* ================================================================ oetsort
\* NUMBER_OF_ROWS_PER_PROCESS = DIMENSION / NUMBER_OF_PROCESSES;
RowsPerProcessOne(r) == 1
RowsPerProcess(r) == CDiv(DIMENSION[r], NUMBER_OF_PROCESSES[r])

\* osort(band, DIMENSION); esort(band, DIMENSION);
AscendingPass(b, length) == esort(osort(b, length), length)

\* orsort(band, DIMENSION); ersort(band, DIMENSION);
DescendingPass(b, length) == ersort(orsort(b, length), length)

\* The flag is an unsigned char and travels as one MPI_UNSIGNED_SHORT: the send
\* reads, and the receive writes, the byte of is_sorted and the byte after it.
\* That byte is the low byte of the variable the build has laid out next:
\* PROCESS_ID (gcc -O0) or NUMBER_OF_PROCESSES (gcc -O2).
Layouts == {"PROCESS_ID", "NUMBER_OF_PROCESSES"}

LayoutsOf(p) == IF p = "oetsort" THEN Layouts ELSE {"PROCESS_ID"}

LowByte(n) == n % 256

WithLowByte(n, byte) == (n \div 256) * 256 + byte

\* The two bytes in the other order, the byte after is_sorted first.
FlagBytesSwapped(r) ==
  <<LowByte(IF layout = "PROCESS_ID" THEN PROCESS_ID[r] ELSE NUMBER_OF_PROCESSES[r]),
    is_sorted[r]>>

\* The two bytes MPI_Send(&is_sorted, 1, MPI_UNSIGNED_SHORT, ...) reads at rank r.
FlagBytes(r) ==
  <<is_sorted[r],
    LowByte(IF layout = "PROCESS_ID" THEN PROCESS_ID[r] ELSE NUMBER_OF_PROCESSES[r])>>

\* What the variable called name holds at a rank, of value n before, once
\* MPI_Recv(&is_sorted, 1, MPI_UNSIGNED_SHORT, ...) has stored bytes.
AfterFlag(name, n, bytes) == IF layout = name THEN WithLowByte(n, bytes[2]) ELSE n

\* oetsort.c worker: if (PROCESS_ID % 2 == 0) { osort; esort } else { orsort; ersort };
\* r is the value of PROCESS_ID.
OetWorkerRow(r, b, length) ==
  IF r % 2 = 0 THEN AscendingPass(b, length) ELSE DescendingPass(b, length)

\* } while (is_sorted == FALSE);
OetRepeatAlways(sorted) == TRUE
OetRepeat(sorted) == sorted = 0

oetIdle == <<cfg, setup, program_counter, fnVars>>

\* The top of the do loop: current_row = 0; current_column = 0; and the
\* start of the first round of rows.
\* The top of the do loop with the rows dealt from row 1 on.
OetPassBeginAtRowOne ==
  /\ current_row' = 1
  /\ current_column' = 0
  /\ previous_row' = 1
  /\ i' = [i EXCEPT ![MASTER] = 0]
  /\ destination' = 1
  /\ counter' = Counted(counter)
  /\ pc' = [pc EXCEPT ![MASTER] = "o_row_send"]

OetPassBegin ==
  /\ current_row' = 0
  /\ current_column' = 0
  /\ previous_row' = 0
  /\ i' = [i EXCEPT ![MASTER] = 0]
  /\ destination' = 1
  /\ counter' = Counted(counter)
  /\ pc' = [pc EXCEPT ![MASTER] = "o_row_send"]

OetInitialize ==
  /\ prog = "oetsort"
  /\ pc[MASTER] = "initialize"
  /\ matrix' \in Matrices(DIMENSION[MASTER])
  /\ OetPassBegin
  /\ UNCHANGED <<oetIdle, exits, numbers, j, source, previous_column, is_sorted, chan,
                 checks>>

\* The send of a row with the row after it skipped.
OetRowSendSkipping ==
  /\ prog = "oetsort"
  /\ pc[MASTER] = "o_row_send"
  /\ IF destination < NUMBER_OF_PROCESSES[MASTER]
     THEN /\ CanSend(MASTER, destination, ROW_TAG)
          /\ chan' = Sent(MASTER, destination,
                          Msg(ROW_TAG, "row", DIMENSION[MASTER],
                              ExtractRow(matrix, current_row)))
          /\ current_row' = current_row + 2
          /\ destination' = destination + 1
          /\ UNCHANGED pc
     ELSE /\ pc' = [pc EXCEPT ![MASTER] = "o_row_sort"]
          /\ UNCHANGED <<chan, current_row, destination>>
  /\ UNCHANGED <<oetIdle, exits, matrix, numbers, i, j, source, current_column,
                 previous_row, previous_column, is_sorted, counter, checks>>

\* MPI_Send(&matrix[current_row++][0], DIMENSION, MPI_INT, destination, ROW_TAG, ...)
OetRowSend ==
  /\ prog = "oetsort"
  /\ pc[MASTER] = "o_row_send"
  /\ IF destination < NUMBER_OF_PROCESSES[MASTER]
     THEN /\ CanSend(MASTER, destination, ROW_TAG)
          /\ chan' = Sent(MASTER, destination,
                          Msg(ROW_TAG, "row", DIMENSION[MASTER],
                              ExtractRow(matrix, current_row)))
          /\ current_row' = current_row + 1
          /\ destination' = destination + 1
          /\ UNCHANGED pc
     ELSE /\ pc' = [pc EXCEPT ![MASTER] = "o_row_sort"]
          /\ UNCHANGED <<chan, current_row, destination>>
  /\ UNCHANGED <<oetIdle, exits, matrix, numbers, i, j, source, current_column,
                 previous_row, previous_column, is_sorted, counter, checks>>

\* osort(&matrix[current_row][0], DIMENSION); esort(&matrix[current_row++][0], DIMENSION);
OetRowSort ==
  /\ prog = "oetsort"
  /\ pc[MASTER] = "o_row_sort"
  /\ matrix' = DepositRow(matrix, current_row,
                          AscendingPass(matrix[current_row], DIMENSION[MASTER]))
  /\ current_row' = current_row + 1
  /\ source' = 1
  /\ pc' = [pc EXCEPT ![MASTER] = "o_row_recv"]
  /\ UNCHANGED <<oetIdle, exits, numbers, i, j, destination, current_column,
                 previous_row, previous_column, is_sorted, chan, counter, checks>>

\* MPI_Recv(&matrix[previous_row++][0], DIMENSION, MPI_INT, source, ROW_TAG, ...);
\* after the last one i++ and either the next round of rows or the columns.
OetRowRecv ==
  /\ prog = "oetsort"
  /\ pc[MASTER] = "o_row_recv"
  /\ IF source < NUMBER_OF_PROCESSES[MASTER]
     THEN /\ CanRecv(source, MASTER, ROW_TAG)
          /\ matrix' = DepositRow(matrix, previous_row, Arrived(source, MASTER, ROW_TAG).data)
          /\ chan' = Taken(source, MASTER, ROW_TAG)
          /\ previous_row' = previous_row + 1
          /\ source' = source + 1
          /\ UNCHANGED <<pc, i, j, destination, previous_column>>
     ELSE /\ i' = [i EXCEPT ![MASTER] = @ + 1]
          /\ destination' = 1
          /\ IF i[MASTER] + 1 < RowsPerProcess(MASTER)
             THEN /\ previous_row' = current_row
                  /\ pc' = [pc EXCEPT ![MASTER] = "o_row_send"]
                  /\ UNCHANGED <<j, previous_column>>
             ELSE /\ j' = [j EXCEPT ![MASTER] = 0]
                  /\ previous_column' = current_column
                  /\ pc' = [pc EXCEPT ![MASTER] = "o_col_send"]
                  /\ UNCHANGED previous_row
          /\ UNCHANGED <<chan, matrix, source>>
  /\ UNCHANGED <<oetIdle, exits, numbers, current_row, current_column, is_sorted, counter, checks>>

\* MPI_Send(&matrix[0][current_column++], 1, column_type, destination, COLUMN_TAG, ...)
OetColSend ==
  /\ prog = "oetsort"
  /\ pc[MASTER] = "o_col_send"
  /\ IF destination < NUMBER_OF_PROCESSES[MASTER]
     THEN /\ CanSend(MASTER, destination, COLUMN_TAG)
          /\ chan' = Sent(MASTER, destination,
                          Msg(COLUMN_TAG, "col", DIMENSION[MASTER],
                              ExtractColumn(matrix, DIMENSION[MASTER], current_column)))
          /\ current_column' = current_column + 1
          /\ destination' = destination + 1
          /\ UNCHANGED pc
     ELSE /\ pc' = [pc EXCEPT ![MASTER] = "o_col_sort"]
          /\ UNCHANGED <<chan, current_column, destination>>
  /\ UNCHANGED <<oetIdle, exits, matrix, numbers, i, j, source, current_row,
                 previous_row, previous_column, is_sorted, counter, checks>>

\* numbers[current_row] = matrix[current_row][current_column]; osort; esort;
\* matrix[current_row][current_column] = numbers[current_row]; current_column++;
\* the copy loops leave current_row = DIMENSION.
OetColSort ==
  /\ prog = "oetsort"
  /\ pc[MASTER] = "o_col_sort"
  /\ LET dim == DIMENSION[MASTER]
         sorted == AscendingPass([k \in 0..(dim - 1) |-> matrix[k][current_column]], dim)
     IN /\ numbers' = [numbers EXCEPT ![MASTER] = sorted]
        /\ matrix' = DepositColumn(matrix, dim, current_column, sorted)
        /\ current_row' = dim
  /\ current_column' = current_column + 1
  /\ source' = 1
  /\ pc' = [pc EXCEPT ![MASTER] = "o_col_recv"]
  /\ UNCHANGED <<oetIdle, exits, i, j, destination, previous_row, previous_column,
                 is_sorted, chan, counter, checks>>

\* MPI_Recv(&matrix[0][previous_column++], 1, column_type, source, COLUMN_TAG, ...);
\* after the last one j++ and either the next round of columns or the check.
OetColRecv ==
  /\ prog = "oetsort"
  /\ pc[MASTER] = "o_col_recv"
  /\ IF source < NUMBER_OF_PROCESSES[MASTER]
     THEN /\ CanRecv(source, MASTER, COLUMN_TAG)
          /\ matrix' = DepositColumn(matrix, DIMENSION[MASTER], previous_column,
                                     Arrived(source, MASTER, COLUMN_TAG).data)
          /\ chan' = Taken(source, MASTER, COLUMN_TAG)
          /\ previous_column' = previous_column + 1
          /\ source' = source + 1
          /\ UNCHANGED <<pc, j, destination>>
     ELSE /\ j' = [j EXCEPT ![MASTER] = @ + 1]
          /\ destination' = 1
          /\ IF j[MASTER] + 1 < RowsPerProcess(MASTER)
             THEN /\ previous_column' = current_column
                  /\ pc' = [pc EXCEPT ![MASTER] = "o_col_send"]
             ELSE /\ pc' = [pc EXCEPT ![MASTER] = "o_check"]
                  /\ UNCHANGED previous_column
          /\ UNCHANGED <<chan, matrix, source>>
  /\ UNCHANGED <<oetIdle, exits, numbers, i, current_row, current_column,
                 previous_row, is_sorted, counter, checks>>

\* The diagonal check.  Its loop counters i, j, current_row and current_column
\* are set again before they are next read, so they are left as they are.
OetCheck ==
  /\ prog = "oetsort"
  /\ pc[MASTER] = "o_check"
  /\ is_sorted' = [is_sorted EXCEPT ![MASTER] = DiagonalCheck(matrix, DIMENSION[MASTER])]
  /\ destination' = 1
  /\ pc' = [pc EXCEPT ![MASTER] = "o_flag_send"]
  /\ checks' = IF checks < MaxPasses THEN checks + 1 ELSE checks
  /\ UNCHANGED <<oetIdle, exits, matrix, numbers, oetIdx, source, chan, counter>>

\* MPI_Send(&is_sorted, 1, MPI_UNSIGNED_SHORT, destination, IS_SORTED_TAG, ...);
\* after the last one the loop test.
OetFlagSend ==
  /\ prog = "oetsort"
  /\ pc[MASTER] = "o_flag_send"
  /\ IF destination < NUMBER_OF_PROCESSES[MASTER]
     THEN /\ CanSend(MASTER, destination, IS_SORTED_TAG)
          /\ chan' = Sent(MASTER, destination,
                          Msg(IS_SORTED_TAG, "flag", 1, FlagBytes(MASTER)))
          /\ destination' = destination + 1
          /\ UNCHANGED <<pc, i, current_row, current_column, previous_row, counter, checks>>
     ELSE /\ IF OetRepeat(is_sorted[MASTER])
             THEN OetPassBegin
             ELSE /\ pc' = [pc EXCEPT ![MASTER] = "report"]
                  /\ UNCHANGED <<i, destination, current_row, current_column,
                                 previous_row, counter, checks>>
          /\ UNCHANGED chan
  /\ UNCHANGED <<oetIdle, exits, matrix, numbers, j, source, previous_column, is_sorted,
                 checks>>

\* Worker: MPI_Recv(&numbers[0], DIMENSION, MPI_INT, MASTER, ROW_TAG, ...) and
\* the pass over the row.
OetWorkerRowRecv(r) ==
  /\ prog = "oetsort"
  /\ r # MASTER
  /\ pc[r] = "ow_row_recv"
  /\ CanRecv(MASTER, r, ROW_TAG)
  /\ numbers' = [numbers EXCEPT ![r] =
                   OetWorkerRow(PROCESS_ID[r], Arrived(MASTER, r, ROW_TAG).data,
                                DIMENSION[r])]
  /\ chan' = Taken(MASTER, r, ROW_TAG)
  /\ pc' = [pc EXCEPT ![r] = "ow_row_send"]
  /\ UNCHANGED <<oetIdle, exits, matrix, oetIdx, destination, source, is_sorted, counter, checks>>

\* MPI_Send(&numbers[0], ..., MASTER, ROW_TAG, ...); i++ and the loop test.
OetWorkerRowSend(r) ==
  /\ prog = "oetsort"
  /\ r # MASTER
  /\ pc[r] = "ow_row_send"
  /\ CanSend(r, MASTER, ROW_TAG)
  /\ chan' = Sent(r, MASTER, Msg(ROW_TAG, "row", DIMENSION[r], numbers[r]))
  /\ i' = [i EXCEPT ![r] = @ + 1]
  /\ IF i[r] + 1 < RowsPerProcess(r)
     THEN /\ pc' = [pc EXCEPT ![r] = "ow_row_recv"]
          /\ UNCHANGED j
     ELSE /\ pc' = [pc EXCEPT ![r] = "ow_col_recv"]
          /\ j' = [j EXCEPT ![r] = 0]
  /\ UNCHANGED <<oetIdle, exits, matrix, numbers, destination, source, current_row,
                 current_column, previous_row, previous_column, is_sorted, counter, checks>>

OetWorkerColRecv(r) ==
  /\ prog = "oetsort"
  /\ r # MASTER
  /\ pc[r] = "ow_col_recv"
  /\ CanRecv(MASTER, r, COLUMN_TAG)
  /\ numbers' = [numbers EXCEPT ![r] =
                   AscendingPass(Arrived(MASTER, r, COLUMN_TAG).data, DIMENSION[r])]
  /\ chan' = Taken(MASTER, r, COLUMN_TAG)
  /\ pc' = [pc EXCEPT ![r] = "ow_col_send"]
  /\ UNCHANGED <<oetIdle, exits, matrix, oetIdx, destination, source, is_sorted, counter, checks>>

OetWorkerColSend(r) ==
  /\ prog = "oetsort"
  /\ r # MASTER
  /\ pc[r] = "ow_col_send"
  /\ CanSend(r, MASTER, COLUMN_TAG)
  /\ chan' = Sent(r, MASTER, Msg(COLUMN_TAG, "col", DIMENSION[r], numbers[r]))
  /\ j' = [j EXCEPT ![r] = @ + 1]
  /\ pc' = [pc EXCEPT ![r] = IF j[r] + 1 < RowsPerProcess(r)
                              THEN "ow_col_recv" ELSE "ow_flag_recv"]
  /\ UNCHANGED <<oetIdle, exits, matrix, numbers, i, destination, source, current_row,
                 current_column, previous_row, previous_column, is_sorted, counter, checks>>

\* MPI_Recv(&is_sorted, 1, MPI_UNSIGNED_SHORT, MASTER, IS_SORTED_TAG, ...) and
\* the loop test; after the loop free(numbers), MPI_Finalize() and return 0.
OetWorkerFlagRecv(r) ==
  /\ prog = "oetsort"
  /\ r # MASTER
  /\ pc[r] = "ow_flag_recv"
  /\ CanRecv(MASTER, r, IS_SORTED_TAG)
  /\ LET bytes == Arrived(MASTER, r, IS_SORTED_TAG).data
         flag == bytes[1]
     IN /\ is_sorted' = [is_sorted EXCEPT ![r] = flag]
        /\ PROCESS_ID' = [PROCESS_ID EXCEPT ![r] = AfterFlag("PROCESS_ID", @, bytes)]
        /\ NUMBER_OF_PROCESSES' =
             [NUMBER_OF_PROCESSES EXCEPT ![r] = AfterFlag("NUMBER_OF_PROCESSES", @, bytes)]
        /\ flags_read' = [flags_read EXCEPT ![r] = Counted(@)]
        /\ IF OetRepeat(flag)
           THEN /\ pc' = [pc EXCEPT ![r] = "ow_row_recv"]
                /\ i' = [i EXCEPT ![r] = 0]
                /\ UNCHANGED <<exitCode, mpi>>
           ELSE /\ pc' = [pc EXCEPT ![r] = "exited"]
                /\ exitCode' = [exitCode EXCEPT ![r] = 0]
                /\ mpi' = [mpi EXCEPT ![r] = "finalized"]
                /\ UNCHANGED i
  /\ chan' = Taken(MASTER, r, IS_SORTED_TAG)
  /\ UNCHANGED <<build, mmVars, ringVars, barrier, mpiErr, allocated, DIMENSION,
                 program_counter, fnVars, summary, matrix, numbers, j, destination,
                 source, current_row, current_column, previous_row, previous_column,
                 counter, checks>>

OetMaster ==
  \/ OetInitialize
  \/ OetRowSend
  \/ OetRowSort
  \/ OetRowRecv
  \/ OetColSend
  \/ OetColSort
  \/ OetColRecv
  \/ OetCheck
  \/ OetFlagSend

OetWorker(r) ==
  \/ OetWorkerRowRecv(r)
  \/ OetWorkerRowSend(r)
  \/ OetWorkerColRecv(r)
  \/ OetWorkerColSend(r)
  \/ OetWorkerFlagRecv(r)

\* ------------------------------------------------------------ launch states
Idle(R, v) == [r \in R |-> v]

NoCalls == [op |-> "none", n |-> 0]

FnIdle == band = <<>> /\ input = <<>> /\ calls = NoCalls /\ compared = {}

LaunchIn(programs, lines, sizes, faulty, modes) ==
  /\ prog \in programs
  /\ args \in lines
  /\ nprocs \in sizes
  /\ faults \in faulty
  /\ eager \in modes
  /\ pc = Idle(Ranks, "start")
  /\ exitCode = Idle(Ranks, 0)
  /\ mpi = Idle(Ranks, "none")
  /\ mpiErr = Idle(Ranks, FALSE)
  /\ allocated = Idle(Ranks, FALSE)
  /\ DIMENSION = Idle(Ranks, 0)
  /\ NUMBER_OF_PROCESSES = Idle(Ranks, 0)
  /\ PROCESS_ID = Idle(Ranks, 0)
  /\ layout \in LayoutsOf(prog)
  /\ flags_read = Idle(Ranks, 0)
  /\ matrix = <<>>
  /\ numbers = Idle(Ranks, <<>>)
  /\ program_counter = Idle(Ranks, 0)
  /\ i = Idle(Ranks, 0)
  /\ j = Idle(Ranks, 0)
  /\ destination = 0
  /\ source = 0
  /\ current_row = 0
  /\ current_column = 0
  /\ previous_row = 0
  /\ previous_column = 0
  /\ is_sorted = Idle(Ranks, 0)
  /\ chan = [p \in Ranks \X Ranks |-> <<>>]
  /\ counter = 0
  /\ checks = 0
  /\ summary = FALSE
  /\ barrier = {}

\* mm and sndrcv have not run.
MmIdle ==
  /\ matrixA = <<>>
  /\ matrixB = Idle(Ranks, <<>>)
  /\ matrixC = <<>>
  /\ rowA = Idle(Ranks, <<>>)
  /\ results = Idle(Ranks, <<>>)

RingIdle ==
  /\ rands = Idle(Ranks, <<>>)
  /\ head = Idle(Ranks, 0)
  /\ times = <<>>

Launch(programs, lines, sizes, faulty) ==
  LaunchIn(programs, lines, sizes, faulty, BOOLEAN) /\ FnIdle /\ MmIdle /\ RingIdle

InitShear == Launch({"shearsort"}, CommandLines, 1..MaxProcs, {FALSE})

NextShear ==
  \/ \E r \in Ranks : Startup(r)
  \/ ShearMaster
  \/ Report
  \/ \E r \in Ranks : ShearWorker(r)

SpecShear == InitShear /\ [][NextShear]_vars


InitOet == Launch({"oetsort"}, CommandLines, 1..MaxProcs, {FALSE})

NextOet ==
  \/ \E r \in Ranks : Startup(r)
  \/ OetMaster
  \/ Report
  \/ \E r \in Ranks : OetWorker(r)

SpecOet == InitOet /\ [][NextOet]_vars

\* Both programs, every command line, every group size, no faults.
Init == Launch({"shearsort", "oetsort"}, CommandLines, 1..MaxProcs, {FALSE})

Next ==
  \/ \E r \in Ranks : Startup(r)
  \/ ShearMaster
  \/ OetMaster
  \/ Report
  \/ \E r \in Ranks : ShearWorker(r)
  \/ \E r \in Ranks : OetWorker(r)

Spec == Init /\ [][Next]_vars


\* ===================================================== the row sorters alone
\* A band of 1..MaxLen elements is given to one of the row sorters, which is
\* then called on it up to MaxLen + 1 times: sort() and rsort() of
\* shearsort.c with some word in front of the band, or the pass main() of
\* oetsort.c makes over a band (osort then esort, or orsort then ersort).
Length(b) == Cardinality(DOMAIN b)

InitFn ==
  /\ LaunchIn({"none"}, {<<>>}, {1}, {FALSE}, {FALSE})
  /\ MmIdle /\ RingIdle
  /\ \E length \in 1..MaxLen : band \in Bands(length, Elems)
  /\ input = band
  /\ calls = NoCalls
  /\ compared = {}

MayCall(op) ==
  /\ calls.op \in {"none", op}
  /\ calls.n < MaxLen + 1
  /\ calls' = [op |-> op, n |-> calls.n + 1]
  /\ UNCHANGED <<sortVars, input, compared>>

CallSort ==
  /\ MayCall("sort")
  /\ \E outside \in Elems : band' = SortedBand(band, Length(band), outside)

CallRsort ==
  /\ MayCall("rsort")
  /\ \E outside \in Elems : band' = RSortedBand(band, Length(band), outside)

CallAscendingPass ==
  /\ MayCall("osort;esort")
  /\ band' = AscendingPass(band, Length(band))

CallDescendingPass ==
  /\ MayCall("orsort;ersort")
  /\ band' = DescendingPass(band, Length(band))

NextFn == CallSort \/ CallRsort \/ CallAscendingPass \/ CallDescendingPass

SpecFn == InitFn /\ [][NextFn]_vars

\* ================================================================== claims
\* M[r][c] <= M[r+1][c+1] for every pair inside the matrix.
SnakeOrdered(m, dim) ==
  \A r \in 0..(dim - 2), c \in 0..(dim - 2) : m[r][c] <= m[r + 1][c + 1]

\* C1 (as claimed): shear sort, launched with as many processes as the
\* dimension, ends with a matrix in which M[r][c] <= M[r+1][c+1] for every
\* pair, and so with the summary and exit code 0, never with the abort.
C1_ShearEndToEnd ==
  (prog = "shearsort" /\ checks >= 1)
    => /\ SnakeOrdered(matrix, DIMENSION[MASTER])
       /\ ~(pc[MASTER] = "exited" /\ exitCode[MASTER] = 1)

\* C6: once the final check of shear sort has found a pair out of order, the
\* master has stopped with exit code 1, without the summary, and has dispatched
\* no further band.
C6_ShearFailureIsFatal ==
  (prog = "shearsort" /\ checks >= 1 /\ ~SnakeOrdered(matrix, DIMENSION[MASTER]))
    => /\ pc[MASTER] = "exited"
       /\ exitCode[MASTER] = 1
       /\ ~summary
       /\ checks = 1
       /\ counter = CeilLog2(DIMENSION[MASTER])
       /\ \A d \in Ranks : chan[<<MASTER, d>>] = <<>>

\* The final check of a run of shear sort has failed and the master has
\* exited with code 1.
C6_Witness ==
  /\ prog = "shearsort"
  /\ checks = 1
  /\ ~SnakeOrdered(matrix, DIMENSION[MASTER])
  /\ pc[MASTER] = "exited"
  /\ exitCode[MASTER] = 1

\* C8 (as claimed): sort() leaves the band as the non-decreasing permutation
\* of its input and rsort() as the non-increasing permutation, whatever the
\* memory outside the band holds.
C8_FullRowSort ==
  /\ (calls.op = "sort" /\ calls.n >= 1)
       => Ascending(band, Length(band)) /\ SameElements(band, input, Length(band))
  /\ (calls.op = "rsort" /\ calls.n >= 1)
       => Descending(band, Length(band)) /\ SameElements(band, input, Length(band))

\* C9: a band of length L that has gone through L or more passes
\* osort-then-esort is the ascending permutation of the band first given, and
\* through L or more passes orsort-then-ersort the descending permutation.
C9_OddEvenNetwork ==
  /\ (calls.op = "osort;esort" /\ calls.n >= Length(band))
       => Ascending(band, Length(band)) /\ SameElements(band, input, Length(band))
  /\ (calls.op = "orsort;ersort" /\ calls.n >= Length(band))
       => Descending(band, Length(band)) /\ SameElements(band, input, Length(band))

\* A band of three or more elements given in strictly descending order has
\* gone through exactly as many ascending passes as it has elements.
C9_Witness ==
  /\ calls.op = "osort;esort"
  /\ Length(band) >= 3
  /\ calls.n = Length(band)
  /\ \A k \in 0..(Length(input) - 2) : input[k] > input[k + 1]
  /\ Ascending(band, Length(band))

\* The dimension the command line gives, 0 when there is no single argument.
GivenDimension == IF Len(args) = 1 THEN atoi(args[1]) ELSE 0

\* The launch gives a positive dimension that the size of the process group
\* does not fit: unequal for shear sort, not a divisor for transposition sort.
CountMismatch ==
  /\ GivenDimension >= 1
  /\ \/ prog = "shearsort" /\ GivenDimension # nprocs
     \/ prog = "oetsort" /\ GivenDimension % nprocs # 0

\* C4: when the process count does not fit the dimension, every rank that has
\* gone through startup has exited with code 1 after MPI_Finalize, has no
\* matrix and no band buffer, and no message was ever sent.
C4_CountValidation ==
  CountMismatch
    => /\ \A r \in Ranks :
            pc[r] # "start"
              => /\ pc[r] = "exited"
                 /\ exitCode[r] = 1
                 /\ mpi[r] = "finalized"
                 /\ ~allocated[r]
                 /\ numbers[r] = <<>>
       /\ matrix = <<>>
       /\ \A p \in Ranks \X Ranks : chan[p] = <<>>
       /\ counter = 0
       /\ ~summary

\* A group of two or more ranks whose size does not fit the dimension has
\* exited, every rank with code 1.
C4_Witness ==
  /\ CountMismatch
  /\ nprocs >= 2
  /\ \A r \in Ranks : pc[r] = "exited" /\ exitCode[r] = 1 /\ mpi[r] = "finalized"

\* C5 (as claimed): with a dimension argument that is zero, negative or not a
\* number, a rank that has gone through startup has exited with code 1 and
\* has never initialized MPI.
C5_PositiveDimension ==
  (Len(args) = 1 /\ GivenDimension <= 0)
    => \A r \in Ranks :
         pc[r] # "start" => pc[r] = "exited" /\ exitCode[r] = 1 /\ mpi[r] = "none"

\* ------------------------------------------------------ failing MPI calls
\* Both programs with dimension 2 and one or two processes, where each of the
\* five MPI calls of startup may return nonzero and calloc may return NULL.
InitFault == Launch({"shearsort", "oetsort"}, {<<Decimal(2)>>}, 1..2, {TRUE})

\* The master is in a loop of sends whose bound, NUMBER_OF_PROCESSES, is larger
\* than the group: MPI_Send to a rank that does not exist ends the process
\* (the communicator's error handler is the default one, which aborts).
SendPcs ==
  {"row_send", "col_send", "final_send", "o_row_send", "o_col_send", "o_flag_send"}

InvalidRank ==
  /\ pc[MASTER] \in SendPcs
  /\ destination < NUMBER_OF_PROCESSES[MASTER]
  /\ destination \notin Ranks
  /\ pc' = [pc EXCEPT ![MASTER] = "crashed"]
  /\ UNCHANGED <<cfg, setup, exits, oetIdx, fnVars, matrix, numbers, program_counter,
                 destination, source, is_sorted, chan, counter, checks>>

NextFault == Next \/ InvalidRank

SpecFault == InitFault /\ [][NextFault]_vars

\* C7 (as claimed): a rank one of whose MPI calls has returned nonzero has
\* exited with code 1 and has not gone on to the sort.
C7_TransportErrorsFatal ==
  \A r \in Ranks :
    (mpiErr[r] /\ pc[r] # "start") => pc[r] = "exited" /\ exitCode[r] = 1

\* ------------------------------------------------- transposition sort, fair
\* Every rank is a process of its own that runs whenever it is not blocked in
\* a send or a receive, so a step that stays possible is eventually taken.
SpecOetFair == InitOet /\ [][NextOet]_vars /\ WF_vars(NextOet)

\* The launch of transposition sort is valid: a positive dimension that the
\* number of processes divides.
OetValidLaunch ==
  /\ prog = "oetsort"
  /\ GivenDimension >= 1
  /\ GivenDimension % nprocs = 0

\* Every rank has left its loop and ended normally, the master with
\* is_sorted = TRUE.
OetDone ==
  /\ \A r \in Ranks : pc[r] = "exited" /\ exitCode[r] = 0
  /\ is_sorted[MASTER] = 1

\* C2: a valid launch of transposition sort leads, whatever the initial
\* matrix, to the master computing is_sorted = TRUE and every rank leaving
\* its loop.
C2_OetTerminates == OetValidLaunch ~> OetDone

\* A run with two or more ranks that needed a second super-step has ended.
C2_Witness ==
  /\ OetValidLaunch
  /\ OetDone
  /\ nprocs >= 2
  /\ counter >= 2

\* ------------------------------- transposition sort, one phase at a time
\* A 4 x 4 matrix and two processes.  Each block of the master's do loop is
\* taken as one step, with what the workers do to the bands they are sent:
\* the rounds of rows, the rounds of columns, and the check with the flag
\* sent to the workers and the loop test.  The loop counters of the blocks
\* are not followed.

\* The rank that passes over band k of a phase: in each round the bands go to
\* ranks 1 .. np - 1 in turn and the next one is the master's.
RankOfBand(k, np) == ((k % np) + 1) % np

\* ids[k] is what PROCESS_ID holds at rank k.
RECURSIVE RowPhaseFrom(_, _, _, _, _)
RowPhaseFrom(m, dim, np, ids, r) ==
  IF r >= dim THEN m
  ELSE RowPhaseFrom(
         DepositRow(m, r, OetWorkerRow(ids[RankOfBand(r, np)], ExtractRow(m, r), dim)),
         dim, np, ids, r + 1)

\* The row phase while every rank holds its own rank in PROCESS_ID.
RowPhase(m, dim, np) == RowPhaseFrom(m, dim, np, [k \in 0..(np - 1) |-> k], 0)

RECURSIVE ColumnPhaseFrom(_, _, _)
ColumnPhaseFrom(m, dim, c) ==
  IF c >= dim THEN m
  ELSE ColumnPhaseFrom(
         DepositColumn(m, dim, c, AscendingPass(ExtractColumn(m, dim, c), dim)),
         dim, c + 1)

ColumnPhaseSkipped(m, dim) == m
ColumnPhase(m, dim) == ColumnPhaseFrom(m, dim, 0)

stepIdle ==
  <<oetIdle, oetIdx, numbers, destination, source, chan>>

StepRows ==
  /\ prog = "oetsort"
  /\ pc[MASTER] = "o_row_send"
  /\ \A r \in Ranks : pc[r] # "start"
  /\ matrix' = RowPhaseFrom(matrix, DIMENSION[MASTER], NUMBER_OF_PROCESSES[MASTER],
                            PROCESS_ID, 0)
  /\ pc' = [pc EXCEPT ![MASTER] = "o_col_send"]
  /\ UNCHANGED <<stepIdle, exits, is_sorted, counter, checks>>

StepColumns ==
  /\ prog = "oetsort"
  /\ pc[MASTER] = "o_col_send"
  /\ matrix' = ColumnPhase(matrix, DIMENSION[MASTER])
  /\ pc' = [pc EXCEPT ![MASTER] = "o_check"]
  /\ UNCHANGED <<stepIdle, exits, is_sorted, counter, checks>>

StepCheck ==
  /\ prog = "oetsort"
  /\ pc[MASTER] = "o_check"
  /\ LET sorted == DiagonalCheck(matrix, DIMENSION[MASTER])
         bytes == <<sorted, FlagBytes(MASTER)[2]>>
     IN /\ is_sorted' = [r \in Ranks |-> sorted]
        /\ PROCESS_ID' = [r \in Ranks |-> IF r = MASTER THEN PROCESS_ID[r]
                                          ELSE AfterFlag("PROCESS_ID", PROCESS_ID[r], bytes)]
        /\ NUMBER_OF_PROCESSES' =
             [r \in Ranks |->
                IF r = MASTER THEN NUMBER_OF_PROCESSES[r]
                ELSE AfterFlag("NUMBER_OF_PROCESSES", NUMBER_OF_PROCESSES[r], bytes)]
        /\ flags_read' = [r \in Ranks |-> IF r = MASTER THEN 0 ELSE Counted(flags_read[r])]
        /\ IF OetRepeat(sorted)
           THEN /\ pc' = [pc EXCEPT ![MASTER] = "o_row_send"]
                /\ counter' = Counted(counter)
                /\ UNCHANGED <<exitCode, mpi>>
           ELSE /\ pc' = [r \in Ranks |-> IF r = MASTER THEN "report" ELSE "exited"]
                /\ mpi' = [r \in Ranks |-> IF r = MASTER THEN mpi[r] ELSE "finalized"]
                /\ UNCHANGED <<exitCode, counter>>
  /\ checks' = IF checks < MaxPasses THEN checks + 1 ELSE checks
  /\ UNCHANGED <<build, mmVars, ringVars, barrier, mpiErr, allocated, DIMENSION,
                 program_counter, fnVars, oetIdx, numbers, destination, source, chan,
                 summary, matrix>>

InitStep ==
  LaunchIn({"oetsort"}, {<<Decimal(4)>>}, {2}, {FALSE}, {FALSE})
    /\ FnIdle /\ MmIdle /\ RingIdle

NextStep ==
  \/ \E r \in Ranks : Startup(r)
  \/ OetInitialize
  \/ StepRows
  \/ StepColumns
  \/ StepCheck
  \/ Report

SpecStep == InitStep /\ [][NextStep]_vars

RowReturned(m, m2, dim, k) ==
  /\ SameElements(m2[k], m[k], dim)
  /\ \A r \in 0..(dim - 1) : r # k => m2[r] = m[r]

\* The same for column k.
ColumnReturned(m, m2, dim, k) ==
  /\ SameElements(ExtractColumn(m2, dim, k), ExtractColumn(m, dim, k), dim)
  /\ \A r \in 0..(dim - 1), c \in 0..(dim - 1) : c # k => m2[r][c] = m[r][c]

\* C10 (as claimed): every step of a row or column phase that changes the
\* master's matrix puts into one row (one column) a rearrangement of what
\* that row (column) held, and leaves the rest of the matrix as it was; so a
\* band that comes back as it went out leaves the matrix unchanged.
C10_BandRoundTrip ==
  [][(matrix # <<>> /\ matrix' # matrix)
       => \E k \in 0..(DIMENSION[MASTER] - 1) :
            \/ RowReturned(matrix, matrix', DIMENSION[MASTER], k)
            \/ ColumnReturned(matrix, matrix', DIMENSION[MASTER], k)]_vars

\* ------------------------------------------- the super-step on its own
\* A matrix of dimension 1..MaxDim and a number of processes that divides
\* the dimension are given, and the super-step of transposition sort (the
\* row phase with each band passed over by its rank, then the column phase)
\* is applied to the matrix again and again.  band holds the matrix, input
\* the matrix first given.
OetSuperStep(m, dim, np) == ColumnPhase(RowPhase(m, dim, np), dim)

InitPass ==
  /\ LaunchIn({"none"}, {<<>>}, 1..MaxProcs, {FALSE}, {FALSE})
  /\ MmIdle /\ RingIdle
  /\ \E dim \in 1..MaxDim : dim % nprocs = 0 /\ band \in Matrices(dim)
  /\ input = band
  /\ calls = NoCalls
  /\ compared = {}

CallSuperStep ==
  /\ MayCall("superstep")
  /\ band' = OetSuperStep(band, Length(band), nprocs)

NextPass == CallSuperStep

SpecPass == InitPass /\ [][NextPass]_vars

\* C11 (as claimed): a super-step applied to a matrix on which the diagonal
\* check returns TRUE yields a matrix on which it returns TRUE again.
C11_ConvergenceMonotone ==
  [][(calls'.op = "superstep" /\ DiagonalCheck(band, Length(band)) = 1)
       => DiagonalCheck(band', Length(band')) = 1]_vars

\* ===================================================================== mm
\* mm.c: C = A * B, the rows of A dealt out to the ranks.  Rank 0 computes
\* one row of C itself in every pass and receives one row from each worker.
MaxSide == 2

A_HEIGHT == atoi(args[1])
A_WIDTH == atoi(args[2])
B_HEIGHT == atoi(args[3])
B_WIDTH == atoi(args[4])

\* SIZE = A_HEIGHT / NUMBER_OF_PROCESSES
SIZE(r) == CDiv(A_HEIGHT, NUMBER_OF_PROCESSES[r])

\* The command lines of mm tried: every four sides in 1..MaxSide, too few
\* arguments, and a zero at each place.
MmLines ==
  {<<Decimal(a), Decimal(b), Decimal(c), Decimal(d)>> : a, b, c, d \in 1..MaxSide}
    \cup {<<>>, <<Decimal(1), Decimal(1), Decimal(1)>>}
    \cup {[k \in 1..4 |-> IF k = z THEN <<"0">> ELSE Decimal(1)] : z \in 1..4}

\* From the top of main() to the MASTER/WORKERS branch, and the two calloc
\* calls of a worker.
StartupMm(a, rc, np, master, callocOk) ==
  IF Len(a) + 1 # 5 THEN Outcome("exited", 1, "none", FALSE, FALSE, 0, 0)
  ELSE IF \E k \in 1..4 : atoi(a[k]) <= 0
  THEN Outcome("exited", 1, "none", FALSE, FALSE, 0, 0)
  ELSE IF atoi(a[2]) # atoi(a[3]) THEN Outcome("exited", 1, "none", FALSE, FALSE, 0, 0)
  ELSE LET err1 == rc.init # 0 \/ rc.size # 0 \/ rc.rank # 0 IN
  IF InitErrorCode(rc) # 0 THEN Outcome("exited", 1, "finalized", FALSE, err1, 0, np)
  ELSE IF np = 0 THEN Outcome("crashed", 0, "up", FALSE, err1, 0, np)
  ELSE IF CRem(atoi(a[1]), np) # 0 THEN Outcome("exited", 1, "finalized", FALSE, err1, 0, np)
  ELSE IF ~master /\ ~callocOk THEN Outcome("exited", 1, "finalized", FALSE, err1, 0, np)
  ELSE Outcome("run", 0, "up", TRUE, err1, 0, np)

mmIdle ==
  <<launch, ringVars, DIMENSION, matrix, numbers, i, j, current_column,
    previous_column, is_sorted, counter, checks, fnVars>>

MmStartup(r) ==
  /\ prog = "mm"
  /\ pc[r] = "start"
  /\ \E rc \in RcSets, garbage \in (IF faults THEN 0..MaxProcs ELSE {0}),
        callocOk \in {TRUE} \cup {~faults} :
       LET np == IF rc.size = 0 THEN nprocs ELSE garbage
           out == StartupMm(args, rc, np, r = MASTER, callocOk)
       IN /\ pc' = [pc EXCEPT ![r] = IF out.pc # "run" THEN out.pc
                                      ELSE IF r = MASTER THEN "mm_initialize"
                                      ELSE "mw_row_recv"]
          /\ exitCode' = [exitCode EXCEPT ![r] = out.code]
          /\ mpi' = [mpi EXCEPT ![r] = out.mpi]
          /\ mpiErr' = [mpiErr EXCEPT ![r] = out.err]
          /\ allocated' = [allocated EXCEPT ![r] = out.alloc]
          /\ NUMBER_OF_PROCESSES' = [NUMBER_OF_PROCESSES EXCEPT ![r] = out.np]
          /\ PROCESS_ID' = [PROCESS_ID EXCEPT ![r] = IF rc.rank = 0 THEN r ELSE @]
  /\ UNCHANGED <<mmIdle, mmVars, program_counter, destination, source, chan,
                 summary, barrier, previous_row, current_row>>

\* The sum over k < width of row[k] * b[k][c].
RECURSIVE DotFrom(_, _, _, _)
DotFrom(row, b, c, k) ==
  IF k = 0 THEN 0 ELSE DotFrom(row, b, c, k - 1) + row[k - 1] * b[k - 1][c]

\* for (k = 0; k < A_WIDTH; k++) sum += row[k] * matrixB[k][c]
ProductRow(row, b, aw, bw) == [c \in 0..(bw - 1) |-> DotFrom(row, b, c, aw)]

\* matrixC is [A_HEIGHT][B_WIDTH] and lies in memory row after row: the words
\* written at &matrixC[r][0] and after it.  Words that would fall behind the
\* end of the matrix are not kept here.
Stored(c, r, bw, data, count) ==
  [idx \in DOMAIN c |->
     IF idx >= r * bw /\ idx < r * bw + count THEN data[idx - r * bw] ELSE c[idx]]

\* initialize(): matrixA and matrixB are filled with rand(); matrixC is
\* declared and not set, so it holds whatever the stack held.
MmInitialize ==
  /\ prog = "mm"
  /\ pc[MASTER] = "mm_initialize"
  /\ matrixA' \in [0..(A_HEIGHT - 1) -> Bands(A_WIDTH, Values)]
  /\ \E b \in [0..(B_HEIGHT - 1) -> Bands(B_WIDTH, Values)] :
       matrixB' = [matrixB EXCEPT ![MASTER] = b]
  /\ matrixC' \in Bands(A_HEIGHT * B_WIDTH, Values)
  /\ program_counter' = [program_counter EXCEPT ![MASTER] = 0]
  /\ current_row' = 0
  /\ pc' = [pc EXCEPT ![MASTER] = "mm_compute"]
  /\ UNCHANGED <<mmIdle, setup, exits, rowA, results, destination, source, chan,
                 barrier, previous_row>>

\* for (program_counter = 0, ...; program_counter < SIZE; ...): the master's
\* own row, current_row++, previous_row = current_row.
MmCompute ==
  /\ prog = "mm"
  /\ pc[MASTER] = "mm_compute"
  /\ matrixC' = Stored(matrixC, current_row, B_WIDTH,
                       ProductRow(matrixA[current_row], matrixB[MASTER], A_WIDTH, B_WIDTH),
                       B_WIDTH)
  /\ current_row' = current_row + 1
  /\ previous_row' = current_row + 1
  /\ destination' = 1
  /\ pc' = [pc EXCEPT ![MASTER] = "mm_row_send"]
  /\ UNCHANGED <<mmIdle, setup, exits, matrixA, matrixB, rowA, results,
                 program_counter, source, chan, barrier>>

\* for (destination = 1; ...) MPI_Send(&matrixA[current_row++][0], A_WIDTH, ...)
MmRowSend ==
  /\ prog = "mm"
  /\ pc[MASTER] = "mm_row_send"
  /\ IF destination < NUMBER_OF_PROCESSES[MASTER]
     THEN /\ CanSend(MASTER, destination, ROW_TAG)
          /\ chan' = Sent(MASTER, destination,
                          Msg(ROW_TAG, "row", A_WIDTH, matrixA[current_row]))
          /\ current_row' = current_row + 1
          /\ destination' = destination + 1
          /\ UNCHANGED <<pc, source>>
     ELSE /\ IF program_counter[MASTER] = 0
             THEN pc' = [pc EXCEPT ![MASTER] = "mm_b_send"] /\ destination' = 1
             ELSE pc' = [pc EXCEPT ![MASTER] = "mm_recv"] /\ UNCHANGED destination
          /\ source' = 1
          /\ UNCHANGED <<chan, current_row>>
  /\ UNCHANGED <<mmIdle, setup, exits, mmVars, program_counter, barrier, previous_row>>

\* if (program_counter == 0) MPI_Send(&matrixB[0][0], B_HEIGHT * B_WIDTH, ...)
MmBSend ==
  /\ prog = "mm"
  /\ pc[MASTER] = "mm_b_send"
  /\ IF destination < NUMBER_OF_PROCESSES[MASTER]
     THEN /\ CanSend(MASTER, destination, COLUMN_TAG)
          /\ chan' = Sent(MASTER, destination,
                          Msg(COLUMN_TAG, "matrix", B_HEIGHT * B_WIDTH, matrixB[MASTER]))
          /\ destination' = destination + 1
          /\ UNCHANGED pc
     ELSE /\ pc' = [pc EXCEPT ![MASTER] = "mm_recv"]
          /\ UNCHANGED <<chan, destination>>
  /\ UNCHANGED <<mmIdle, setup, exits, mmVars, program_counter, barrier, previous_row,
                 current_row, source>>

\* for (source = 1; ...) MPI_Recv(&matrixC[previous_row++][0], A_WIDTH, ...):
\* what arrived is stored from the start of the row on; when it is longer than
\* what is left of matrixC the words behind the matrix are overwritten, and
\* the program goes on or is killed.
MmRecv ==
  /\ prog = "mm"
  /\ pc[MASTER] = "mm_recv"
  /\ IF source < NUMBER_OF_PROCESSES[MASTER]
     THEN /\ CanRecv(source, MASTER, ROW_TAG)
          /\ LET msg == Arrived(source, MASTER, ROW_TAG)
                 fits == previous_row * B_WIDTH + msg.count <= A_HEIGHT * B_WIDTH
             IN /\ matrixC' = Stored(matrixC, previous_row, B_WIDTH, msg.data, msg.count)
                /\ \E damage \in {"continue"} \cup (IF fits THEN {} ELSE {"crash"}) :
                     pc' = [pc EXCEPT ![MASTER] =
                              IF damage = "crash" THEN "crashed" ELSE @]
          /\ chan' = Taken(source, MASTER, ROW_TAG)
          /\ previous_row' = previous_row + 1
          /\ source' = source + 1
          /\ UNCHANGED program_counter
     ELSE /\ program_counter' = [program_counter EXCEPT ![MASTER] = @ + 1]
          /\ pc' = [pc EXCEPT ![MASTER] =
                      IF program_counter[MASTER] + 1 < SIZE(MASTER)
                      THEN "mm_compute" ELSE "barrier"]
          /\ UNCHANGED <<chan, matrixC, previous_row, source>>
  /\ UNCHANGED <<mmIdle, setup, exits, matrixA, matrixB, rowA, results, barrier,
                 current_row, destination>>

\* Worker: MPI_Recv(&rowA[0], A_WIDTH, MPI_DOUBLE, MASTER, ROW_TAG, ...)
MmWorkerRowRecv(r) ==
  /\ prog = "mm"
  /\ r # MASTER
  /\ pc[r] = "mw_row_recv"
  /\ CanRecv(MASTER, r, ROW_TAG)
  /\ rowA' = [rowA EXCEPT ![r] = Arrived(MASTER, r, ROW_TAG).data]
  /\ chan' = Taken(MASTER, r, ROW_TAG)
  /\ pc' = [pc EXCEPT ![r] = IF program_counter[r] = 0 THEN "mw_b_recv" ELSE "mw_multiply"]
  /\ UNCHANGED <<mmIdle, setup, exits, matrixA, matrixB, matrixC, results,
                 program_counter, destination, source, barrier, previous_row,
                 current_row>>

\* Worker: if (program_counter == 0) MPI_Recv(&matrixB[0][0], ..., COLUMN_TAG, ...)
MmWorkerBRecv(r) ==
  /\ prog = "mm"
  /\ r # MASTER
  /\ pc[r] = "mw_b_recv"
  /\ CanRecv(MASTER, r, COLUMN_TAG)
  /\ matrixB' = [matrixB EXCEPT ![r] = Arrived(MASTER, r, COLUMN_TAG).data]
  /\ chan' = Taken(MASTER, r, COLUMN_TAG)
  /\ pc' = [pc EXCEPT ![r] = "mw_multiply"]
  /\ UNCHANGED <<mmIdle, setup, exits, matrixA, matrixC, rowA, results,
                 program_counter, destination, source, barrier, previous_row,
                 current_row>>

\* Worker: results[i] = sum of rowA[j] * matrixB[j][i], for i < B_WIDTH.
MmWorkerMultiply(r) ==
  /\ prog = "mm"
  /\ r # MASTER
  /\ pc[r] = "mw_multiply"
  /\ results' = [results EXCEPT ![r] = ProductRow(rowA[r], matrixB[r], A_WIDTH, B_WIDTH)]
  /\ pc' = [pc EXCEPT ![r] = "mw_send"]
  /\ UNCHANGED <<mmIdle, setup, exits, matrixA, matrixB, matrixC, rowA,
                 program_counter, destination, source, chan, barrier, previous_row,
                 current_row>>

\* Worker: MPI_Send(&results[0], A_WIDTH, MPI_DOUBLE, MASTER, ROW_TAG, ...).
\* results has B_WIDTH elements; the elements sent from behind it are whatever
\* the heap holds there.
MmWorkerSend(r) ==
  /\ prog = "mm"
  /\ r # MASTER
  /\ pc[r] = "mw_send"
  /\ CanSend(r, MASTER, ROW_TAG)
  /\ \E beyond \in Bands(A_WIDTH, Values) :
       chan' = Sent(r, MASTER,
                    Msg(ROW_TAG, "row", A_WIDTH,
                        [k \in 0..(A_WIDTH - 1) |->
                           IF k < B_WIDTH THEN results[r][k] ELSE beyond[k]]))
  /\ program_counter' = [program_counter EXCEPT ![r] = @ + 1]
  /\ pc' = [pc EXCEPT ![r] = IF program_counter[r] + 1 < SIZE(r)
                              THEN "mw_row_recv" ELSE "barrier"]
  /\ UNCHANGED <<mmIdle, setup, exits, mmVars, destination, source, barrier,
                 previous_row, current_row>>

\* MPI_Barrier(MPI_COMM_WORLD): the call, and the return once every rank of
\* the group has called.
BarrierEnter(r) ==
  /\ pc[r] = "barrier"
  /\ barrier' = barrier \cup {r}
  /\ pc' = [pc EXCEPT ![r] = "in_barrier"]
  /\ UNCHANGED <<mmIdle, setup, exits, mmVars, program_counter, destination,
                 source, chan, previous_row, current_row>>

\* After the barrier: the summary at the master, free() at a worker,
\* MPI_Finalize() and return 0.
MmFinish(r) ==
  /\ prog = "mm"
  /\ pc[r] = "in_barrier"
  /\ barrier = Ranks
  /\ summary' = (summary \/ r = MASTER)
  /\ allocated' = [allocated EXCEPT ![r] = FALSE]
  /\ pc' = [pc EXCEPT ![r] = "exited"]
  /\ exitCode' = [exitCode EXCEPT ![r] = 0]
  /\ mpi' = [mpi EXCEPT ![r] = "finalized"]
  /\ UNCHANGED <<mmIdle, mpiErr, NUMBER_OF_PROCESSES, PROCESS_ID, mmVars, program_counter,
                 destination, source, chan, barrier, previous_row, current_row>>

InitMm ==
  /\ LaunchIn({"mm"}, MmLines, 1..MaxSide, {FALSE}, BOOLEAN)
  /\ FnIdle /\ MmIdle /\ RingIdle

NextMm ==
  \/ \E r \in Ranks : MmStartup(r)
  \/ MmInitialize
  \/ MmCompute
  \/ MmRowSend
  \/ MmBSend
  \/ MmRecv
  \/ \E r \in Ranks : MmWorkerRowRecv(r)
  \/ \E r \in Ranks : MmWorkerBRecv(r)
  \/ \E r \in Ranks : MmWorkerMultiply(r)
  \/ \E r \in Ranks : MmWorkerSend(r)
  \/ \E r \in Ranks : BarrierEnter(r)
  \/ \E r \in Ranks : MmFinish(r)

SpecMm == InitMm /\ [][NextMm]_vars

\* The master holds the whole of C: it has left its receive loop.
MmResultHeld ==
  /\ prog = "mm"
  /\ pc[MASTER] \in {"barrier", "in_barrier"}
       \/ (pc[MASTER] = "exited" /\ summary)

\* C12 (as claimed): with A_WIDTH = B_HEIGHT and A_HEIGHT divisible by the
\* number of processes, whatever B_WIDTH is, every row a worker returns
\* carries the B_WIDTH elements of its product row, and once the master has
\* received every row, C[i][j] is the sum over k of A[i][k] * B[k][j].
C12_ProductAtMaster ==
  /\ prog = "mm" =>
       \A r \in Ranks \ {MASTER} : \A n \in 1..Len(chan[<<r, MASTER>>]) :
         chan[<<r, MASTER>>][n].count = B_WIDTH
  /\ MmResultHeld =>
       \A row \in 0..(A_HEIGHT - 1) : \A col \in 0..(B_WIDTH - 1) :
         matrixC[row * B_WIDTH + col]
           = DotFrom(matrixA[row], matrixB[MASTER], col, A_WIDTH)

\* ================================================================== sndrcv
\* sndrcv.c: in each run a head is drawn and an array is handed round the
\* ring of processes from the head to its predecessor; the master records the
\* time the head measured.
MaxRuns == 2
RUNTIME_TAG == 0

\* sndrcv.c: SIZE = atoi(argv[1]), NUMBER_OF_RUNS = atoi(argv[2])
RingSize == atoi(args[1])
NUMBER_OF_RUNS == atoi(args[2])

\* The command lines of sndrcv tried: an array of one character and 1..MaxRuns
\* runs, no arguments, a zero at each place, and a negative number of runs.
RingLines ==
  {<<Decimal(1), Decimal(n)>> : n \in 1..MaxRuns}
    \cup {<<>>, <<<<"0">>, Decimal(1)>>, <<Decimal(1), <<"0">>>>,
          <<Decimal(1), <<"-", "1">>>>}

\* From the top of main() to the loop over the runs.  calloc of a negative
\* size (converted to a huge size_t) returns NULL.
StartupRing(a, rc, np, callocOk) ==
  IF Len(a) + 1 # 3 THEN Outcome("exited", 1, "none", FALSE, FALSE, 0, 0)
  ELSE IF atoi(a[1]) = 0 \/ atoi(a[2]) = 0
  THEN Outcome("exited", 1, "none", FALSE, FALSE, 0, 0)
  ELSE IF atoi(a[1]) < 0 \/ atoi(a[2]) < 0 \/ ~callocOk
  THEN Outcome("exited", 1, "none", FALSE, FALSE, 0, 0)
  ELSE LET err1 == rc.init # 0 \/ rc.size # 0 \/ rc.rank # 0 IN
  IF InitErrorCode(rc) # 0 THEN Outcome("exited", 1, "finalized", TRUE, err1, 0, np)
  ELSE Outcome("run", 0, "up", TRUE, err1, 0, np)

ringIdle ==
  <<launch, mmVars, DIMENSION, matrix, numbers, oetIdx, destination, source,
    is_sorted, counter, checks, fnVars>>

\* The values rand() is taken to return.
RandValues == 0..(MaxProcs - 1)

\* srand(time(NULL)) fixes what rand() will return at this rank, call after
\* call; each rank seeds on its own.
RingStartup(r) ==
  /\ prog = "sndrcv"
  /\ pc[r] = "start"
  /\ \E rc \in RcSets, garbage \in (IF faults THEN 0..MaxProcs ELSE {0}),
        callocOk \in {TRUE} \cup {~faults} :
       LET np == IF rc.size = 0 THEN nprocs ELSE garbage
           out == StartupRing(args, rc, np, callocOk)
       IN /\ pc' = [pc EXCEPT ![r] = IF out.pc = "run" THEN "r_loop" ELSE out.pc]
          /\ exitCode' = [exitCode EXCEPT ![r] = out.code]
          /\ mpi' = [mpi EXCEPT ![r] = out.mpi]
          /\ mpiErr' = [mpiErr EXCEPT ![r] = out.err]
          /\ allocated' = [allocated EXCEPT ![r] = out.alloc]
          /\ NUMBER_OF_PROCESSES' = [NUMBER_OF_PROCESSES EXCEPT ![r] = out.np]
          /\ PROCESS_ID' = [PROCESS_ID EXCEPT ![r] = IF rc.rank = 0 THEN r ELSE @]
          /\ IF out.pc = "run"
             THEN \E seq \in [0..(NUMBER_OF_RUNS - 1) -> RandValues] :
                    rands' = [rands EXCEPT ![r] = seq]
             ELSE UNCHANGED rands
  /\ program_counter' = [program_counter EXCEPT ![r] = 0]
  /\ UNCHANGED <<ringIdle, head, times, chan, summary, barrier>>

\* broadcast(): predecesor_id and successor_id.
Predecessor(my_id, np) == (my_id - 1 + np) % np
Successor(my_id, np) == (my_id + 1 + np) % np

\* The receive rank r is blocked in: the sources it accepts a message of tag 0
\* from.
RingPosted(r) ==
  IF pc[r] = "b_recv" THEN {Predecessor(r, NUMBER_OF_PROCESSES[r])}
  ELSE IF pc[r] = "r_time_recv" THEN Ranks
  ELSE {}

\* MPI_Send returns at once when the message is buffered, and otherwise when
\* the receiver takes it.
RingCanSend(s, d) ==
  /\ d \in Ranks
  /\ eager \/ (s \in RingPosted(d) /\ \A x \in Ranks : chan[<<x, d>>] = <<>>)

\* for (program_counter = 0; program_counter < NUMBER_OF_RUNS; ...):
\* initialize(), head = rand() % NUMBER_OF_PROCESSES, and the entry into
\* broadcast().  rand() % 0 kills the process.
RingDraw(r) ==
  /\ prog = "sndrcv"
  /\ pc[r] = "r_loop"
  /\ IF program_counter[r] < NUMBER_OF_RUNS
     THEN IF NUMBER_OF_PROCESSES[r] = 0
          THEN pc' = [pc EXCEPT ![r] = "crashed"] /\ UNCHANGED head
          ELSE LET h == rands[r][program_counter[r]] % NUMBER_OF_PROCESSES[r]
               IN /\ head' = [head EXCEPT ![r] = h]
                  /\ pc' = [pc EXCEPT ![r] = IF r = h THEN "b_send" ELSE "b_recv"]
     ELSE pc' = [pc EXCEPT ![r] = "barrier"] /\ UNCHANGED head
  /\ UNCHANGED <<ringIdle, setup, exits, rands, times, program_counter, chan, barrier>>

\* broadcast(), the head: MPI_Send(array, size, MPI_CHAR, successor_id, ...)
RingHeadSend(r) ==
  /\ prog = "sndrcv"
  /\ pc[r] = "b_send"
  /\ RingCanSend(r, Successor(r, NUMBER_OF_PROCESSES[r]))
  /\ chan' = Sent(r, Successor(r, NUMBER_OF_PROCESSES[r]),
                  Msg(0, "array", RingSize, program_counter[r]))
  /\ pc' = [pc EXCEPT ![r] = "r_after"]
  /\ UNCHANGED <<ringIdle, setup, exits, ringVars, program_counter, barrier>>

\* broadcast(), the others: MPI_Recv(array, size, MPI_CHAR, predecesor_id, ...)
\* takes the earliest message of the predecessor with tag 0.
RingRecv(r) ==
  /\ prog = "sndrcv"
  /\ pc[r] = "b_recv"
  /\ CanRecv(Predecessor(r, NUMBER_OF_PROCESSES[r]), r, 0)
  /\ chan' = Taken(Predecessor(r, NUMBER_OF_PROCESSES[r]), r, 0)
  /\ pc' = [pc EXCEPT ![r] =
              IF head[r] # Successor(r, NUMBER_OF_PROCESSES[r]) THEN "b_forward"
              ELSE "r_after"]
  /\ UNCHANGED <<ringIdle, setup, exits, ringVars, program_counter, barrier>>

\* broadcast(): if (broadcast_id != successor_id) MPI_Send(array, ...)
RingForward(r) ==
  /\ prog = "sndrcv"
  /\ pc[r] = "b_forward"
  /\ RingCanSend(r, Successor(r, NUMBER_OF_PROCESSES[r]))
  /\ chan' = Sent(r, Successor(r, NUMBER_OF_PROCESSES[r]),
                  Msg(0, "array", RingSize, program_counter[r]))
  /\ pc' = [pc EXCEPT ![r] = "r_after"]
  /\ UNCHANGED <<ringIdle, setup, exits, ringVars, program_counter, barrier>>

\* After broadcast(): the master with another head waits for the runtime; with
\* the master as head every rank takes its own time; the head sends its time.
RingAfter(r) ==
  /\ prog = "sndrcv"
  /\ pc[r] = "r_after"
  /\ IF r = MASTER /\ head[r] # MASTER
     THEN /\ pc' = [pc EXCEPT ![r] = "r_time_recv"]
          /\ UNCHANGED <<times, program_counter>>
     ELSE IF head[r] # MASTER /\ r = head[r]
     THEN /\ pc' = [pc EXCEPT ![r] = "r_time_send"]
          /\ UNCHANGED <<times, program_counter>>
     ELSE /\ times' = IF r = MASTER /\ head[r] = MASTER
                      THEN Append(times, [from |-> MASTER, kind |-> "own",
                                          run |-> program_counter[r]])
                      ELSE times
          /\ program_counter' = [program_counter EXCEPT ![r] = @ + 1]
          /\ pc' = [pc EXCEPT ![r] = "r_loop"]
  /\ UNCHANGED <<ringIdle, setup, exits, rands, head, chan, barrier>>

\* MPI_Recv(&times[program_counter], 1, MPI_DOUBLE, MPI_ANY_SOURCE,
\* RUNTIME_TAG, ...): the earliest message of tag 0 of any source.
RingTimeRecv ==
  /\ prog = "sndrcv"
  /\ pc[MASTER] = "r_time_recv"
  /\ \E s \in Ranks :
       /\ CanRecv(s, MASTER, RUNTIME_TAG)
       /\ times' = Append(times, [from |-> s,
                                  kind |-> Arrived(s, MASTER, RUNTIME_TAG).kind,
                                  run |-> Arrived(s, MASTER, RUNTIME_TAG).data])
       /\ chan' = Taken(s, MASTER, RUNTIME_TAG)
  /\ program_counter' = [program_counter EXCEPT ![MASTER] = @ + 1]
  /\ pc' = [pc EXCEPT ![MASTER] = "r_loop"]
  /\ UNCHANGED <<ringIdle, setup, exits, rands, head, barrier>>

\* MPI_Send(&runtime, 1, MPI_DOUBLE, MASTER, RUNTIME_TAG, ...)
RingTimeSend(r) ==
  /\ prog = "sndrcv"
  /\ pc[r] = "r_time_send"
  /\ RingCanSend(r, MASTER)
  /\ chan' = Sent(r, MASTER, Msg(RUNTIME_TAG, "runtime", 1, program_counter[r]))
  /\ program_counter' = [program_counter EXCEPT ![r] = @ + 1]
  /\ pc' = [pc EXCEPT ![r] = "r_loop"]
  /\ UNCHANGED <<ringIdle, setup, exits, ringVars, barrier>>

\* After the barrier: the run table and the summary at the master,
\* MPI_Finalize(), free() and return 0.
RingFinish(r) ==
  /\ prog = "sndrcv"
  /\ pc[r] = "in_barrier"
  /\ barrier = Ranks
  /\ summary' = (summary \/ r = MASTER)
  /\ allocated' = [allocated EXCEPT ![r] = FALSE]
  /\ pc' = [pc EXCEPT ![r] = "exited"]
  /\ exitCode' = [exitCode EXCEPT ![r] = 0]
  /\ mpi' = [mpi EXCEPT ![r] = "finalized"]
  /\ UNCHANGED <<ringIdle, mpiErr, NUMBER_OF_PROCESSES, PROCESS_ID, ringVars, program_counter,
                 chan, barrier>>

InitRing ==
  /\ LaunchIn({"sndrcv"}, RingLines, 1..MaxProcs, {FALSE}, BOOLEAN)
  /\ FnIdle /\ MmIdle /\ RingIdle

NextRing ==
  \/ \E r \in Ranks : RingStartup(r)
  \/ \E r \in Ranks : RingDraw(r)
  \/ \E r \in Ranks : RingHeadSend(r)
  \/ \E r \in Ranks : RingRecv(r)
  \/ \E r \in Ranks : RingForward(r)
  \/ \E r \in Ranks : RingAfter(r)
  \/ RingTimeRecv
  \/ \E r \in Ranks : RingTimeSend(r)
  \/ \E r \in Ranks : BarrierEnter(r)
  \/ \E r \in Ranks : RingFinish(r)

SpecRing == InitRing /\ [][NextRing]_vars

\* Every step that can be taken is taken in the end: a process that is not
\* blocked goes on.
SpecRingFair == SpecRing /\ WF_vars(NextRing)

\* Every rank has seeded, and the heads the ranks will draw are the same at
\* every rank, run by run.
HeadsShared ==
  /\ prog = "sndrcv"
  /\ \A r \in Ranks : rands[r] # <<>>
  /\ \A r \in Ranks : \A k \in DOMAIN rands[r] :
       rands[r][k] % NUMBER_OF_PROCESSES[r]
         = rands[MASTER][k] % NUMBER_OF_PROCESSES[MASTER]

\* Rank r is inside its call k of broadcast(); it has returned from it.
InBroadcast(r, k) ==
  r \in Ranks /\ program_counter[r] = k /\ pc[r] \in {"b_send", "b_recv", "b_forward"}

ReturnedFromBroadcast(r, k) ==
  /\ r \in Ranks
  /\ \/ program_counter[r] > k
     \/ program_counter[r] = k /\ pc[r] \in {"r_after", "r_time_recv", "r_time_send"}

\* The arrays of the first call are under way on the ring only: from a rank
\* to its successor, and never from the tail on to the head.
FirstCallOnRing ==
  \A s \in Ranks : \A d \in Ranks : \A n \in 1..Len(chan[<<s, d>>]) :
    LET msg == chan[<<s, d>>][n]
    IN (msg.kind = "array" /\ msg.data = 0) =>
         /\ d = Successor(s, nprocs)
         /\ d # rands[MASTER][0] % nprocs

\* C13 (as claimed): for every number of processes from 1 on and every head
\* the processes share, in a call of broadcast (the first of the program) the
\* array goes from each rank to its successor, the tail does not send it on
\* to the head, and every process returns from broadcast.
C13_RingBroadcast ==
  /\ [](HeadsShared => FirstCallOnRing)
  /\ \A r \in 0..(MaxProcs - 1) :
       (HeadsShared /\ InBroadcast(r, 0)) ~> ReturnedFromBroadcast(r, 0)

\* ------------------------------------------------- directions of the phases
\* After a pass of transposition sort in a direction the pairs (0,1), (2,3),
\* ... of the band stand in that direction: the even pairs are passed over
\* last.
PairsAscending(b, length) ==
  \A k \in 0..(length - 1) : (k % 2 = 0 /\ k + 1 < length) => b[k] <= b[k + 1]

PairsDescending(b, length) ==
  \A k \in 0..(length - 1) : (k % 2 = 0 /\ k + 1 < length) => b[k] >= b[k + 1]

\* The band b as a rank of the program has sorted it stands in the direction:
\* wholly in shear sort, pair by pair in transposition sort.
InDirection(b, length, ascending) ==
  IF prog = "shearsort"
  THEN IF ascending THEN Ascending(b, length) ELSE Descending(b, length)
  ELSE IF ascending THEN PairsAscending(b, length) ELSE PairsDescending(b, length)

\* Worker r receives a row and sorts it in this step.
WorkerSortsRow(r) ==
  /\ r \in Ranks \ {MASTER}
  /\ pc[r] \in {"w_row_recv", "w_final_recv", "ow_row_recv"}
  /\ pc'[r] \in {"w_row_send", "w_final_send", "ow_row_send"}

\* The master sorts a row of its own in this step.
MasterSortsRow ==
  /\ pc[MASTER] \in {"row_sort", "o_row_sort"}
  /\ pc'[MASTER] # pc[MASTER]

MasterRow == IF prog = "shearsort" THEN 0 ELSE current_row

\* C14 (as claimed): in every row phase of shear sort, the last one included,
\* and of transposition sort, the row a rank has sorted is ascending when the
\* rank is even and descending when it is odd.
C14_RowDirectionByParity ==
  [][/\ \A r \in 1..(MaxProcs - 1) :
          WorkerSortsRow(r) => InDirection(numbers'[r], DIMENSION[r], r % 2 = 0)
     /\ MasterSortsRow => InDirection(matrix'[MasterRow], DIMENSION[MASTER], TRUE)]_vars

\* A row phase of the master has ended and no column has come back yet: the
\* matrix is as the row phase left it.
AfterRowPhase ==
  \/ prog = "shearsort" /\ pc[MASTER] \in {"col_send", "check"}
  \/ prog = "oetsort" /\ pc[MASTER] = "o_col_send" /\ j[MASTER] = 0

\* The rows the master keeps for itself: row 0 in shear sort, the last row of
\* every round of NUMBER_OF_PROCESSES rows in transposition sort.
MasterRows ==
  IF prog = "shearsort" THEN {0}
  ELSE {k \in 0..(DIMENSION[MASTER] - 1) :
          k % NUMBER_OF_PROCESSES[MASTER] = NUMBER_OF_PROCESSES[MASTER] - 1}

\* C15 (as claimed): after every row phase of both programs, the last row
\* phase of shear sort included, the rows of the controller have been sorted
\* ascending by the controller.
C15_ControllerSortsItsRows ==
  AfterRowPhase =>
    \A k \in MasterRows : InDirection(matrix[k], DIMENSION[MASTER], TRUE)

\* Worker r receives a column and sorts it in this step.
WorkerSortsColumn(r) ==
  /\ r \in Ranks \ {MASTER}
  /\ pc[r] \in {"w_col_recv", "ow_col_recv"}
  /\ pc'[r] \in {"w_col_send", "ow_col_send"}

\* The master sorts a column of its own in this step.
MasterSortsColumn ==
  /\ pc[MASTER] \in {"col_sort", "o_col_sort"}
  /\ pc'[MASTER] # pc[MASTER]

MasterColumn == IF prog = "shearsort" THEN 0 ELSE current_column

\* C16: in every column phase of shear sort and of transposition sort the
\* column a rank has sorted is in ascending direction, whatever the parity of
\* the rank, the column of the master included.
C16_ColumnsAscending ==
  [][/\ \A r \in 1..(MaxProcs - 1) :
          WorkerSortsColumn(r) => InDirection(numbers'[r], DIMENSION[r], TRUE)
     /\ MasterSortsColumn =>
          InDirection(ExtractColumn(matrix', DIMENSION[MASTER], MasterColumn),
                      DIMENSION[MASTER], TRUE)]_vars

\* An odd rank of each program has sorted a column that now holds different
\* values, and so has the master.
C16_Witness ==
  \/ /\ nprocs > 1
     /\ pc[1] \in {"w_col_send", "ow_col_send"}
     /\ numbers[1][0] < numbers[1][DIMENSION[1] - 1]
  \/ /\ pc[MASTER] \in {"row_send", "final_send", "o_col_recv"}
     /\ program_counter[MASTER] + counter > 0
     /\ matrix[0][0] < matrix[DIMENSION[MASTER] - 1][0]

\* ---------------------------------------------------- phases of shear sort
ShearLoopPcs == {"row_send", "row_recv", "row_sort", "col_send", "col_recv", "col_sort"}
ShearFinalPcs == {"final_send", "final_recv"}
ShearWorkerLoopPcs == {"w_row_recv", "w_row_send", "w_col_recv", "w_col_send"}
ShearWorkerFinalPcs == {"w_final_recv", "w_final_send"}

\* C17: in shear sort the master and every worker go through
\* ceil(log2 DIMENSION) super-steps of a row and a column phase and then
\* through the one last row phase; the master makes the diagonal check once,
\* after the last row phase, and never between super-steps.
C17_ShearPhaseCount ==
  prog = "shearsort" =>
    /\ checks <= 1
    /\ checks = 1 => pc[MASTER] \in {"report", "exited"}
    /\ pc[MASTER] = "report" => checks = 1
    /\ pc[MASTER] \in ShearLoopPcs =>
         /\ program_counter[MASTER] < CeilLog2(DIMENSION[MASTER])
         /\ counter = program_counter[MASTER] + 1
         /\ checks = 0
    /\ pc[MASTER] \in ShearFinalPcs \cup {"check", "report"} =>
         /\ program_counter[MASTER] = CeilLog2(DIMENSION[MASTER])
         /\ counter = CeilLog2(DIMENSION[MASTER])
    /\ pc[MASTER] \in ShearFinalPcs \cup {"check"} => checks = 0
    /\ \A r \in Ranks \ {MASTER} :
         /\ pc[r] \in ShearWorkerLoopPcs =>
              program_counter[r] < CeilLog2(DIMENSION[r])
         /\ (pc[r] \in ShearWorkerFinalPcs \/ (pc[r] = "exited" /\ exitCode[r] = 0)) =>
              program_counter[r] = CeilLog2(DIMENSION[r])

\* Shear sort of dimension MaxDim has ended: the master has made its check
\* and every worker has returned.
C17_Witness ==
  /\ prog = "shearsort"
  /\ DIMENSION[MASTER] = MaxDim
  /\ pc[MASTER] = "report"
  /\ checks = 1
  /\ \A r \in Ranks \ {MASTER} : pc[r] = "exited" /\ program_counter[r] = CeilLog2(MaxDim)

\* ------------------------------------------------------- the flag at the workers
\* Worker r takes a flag off its channel in this step.
WorkerReadsFlag(r) ==
  /\ prog = "oetsort"
  /\ r \in Ranks \ {MASTER}
  /\ pc[r] = "ow_flag_recv"
  /\ pc'[r] # "ow_flag_recv"

\* What the controller computed in its check number k, k <= checks: the value
\* it holds if that check is its latest, FALSE if it has gone on to a later one.
FlagOfCheck(k) == IF k = checks THEN is_sorted[MASTER] ELSE 0

\* The controller has left its loop, or is telling the workers that it does.
ControllerStops ==
  /\ pc[MASTER] \in {"o_flag_send", "report", "exited"}
  /\ checks > 0
  /\ ~OetRepeat(is_sorted[MASTER])

\* Worker r has left its loop.
WorkerStopped(r) == pc[r] = "exited" /\ flags_read[r] > 0

\* C18: in every super-step of transposition sort the flag a worker reads is
\* the value the controller computed in the check of that super-step; a worker
\* that has stopped has read as many flags as the controller has made checks and
\* the controller stops too, and a worker still in its loop after the controller
\* has stopped has a flag of the controller left to read.
C18_FlagAgreement ==
  /\ [][\A r \in 1..(MaxProcs - 1) :
          WorkerReadsFlag(r) =>
            /\ flags_read'[r] <= checks
            /\ is_sorted'[r] = FlagOfCheck(flags_read'[r])]_vars
  /\ [](prog = "oetsort" =>
          \A r \in Ranks \ {MASTER} :
            /\ WorkerStopped(r) => (ControllerStops /\ flags_read[r] = checks)
            /\ (ControllerStops /\ pc[r] \notin {"start", "exited"})
                 => flags_read[r] < checks)

\* Two workers have stopped after the second super-step with the controller,
\* each having read one flag to continue and one to stop.
C18_Witness ==
  /\ prog = "oetsort"
  /\ nprocs = 3
  /\ checks = 2
  /\ pc[MASTER] = "exited"
  /\ summary
  /\ \A r \in {1, 2} : WorkerStopped(r) /\ flags_read[r] = 2 /\ is_sorted[r] = 1

\* ============================================== the diagonal check on its own
\* oetsort.c 345-359 (shearsort.c 284-297 is the same with i in both loops):
\* the check is followed comparison by comparison on a matrix of dimension
\* 1..MaxDim given in input.  A cell outside the matrix holds whatever lies
\* there.
OutOfOrderOrEqual(a, b) == a >= b

\* if (matrix[current_row][current_column] > matrix[current_row + 1][current_column + 1])
OutOfOrder(a, b) == a > b

InMatrix(dim, r, c) == r \in 0..(dim - 1) /\ c \in 0..(dim - 1)

\* What a read of matrix[r][c] may yield.
CellValues(m, dim, r, c) == IF InMatrix(dim, r, c) THEN {m[r][c]} ELSE Values

checkIdle ==
  <<cfg, mpiErr, allocated, NUMBER_OF_PROCESSES, PROCESS_ID, exits, numbers,
    program_counter, destination, source, previous_row, previous_column, chan, counter,
    checks, band, input, calls>>

InitCheck ==
  /\ LaunchIn({"none"}, {<<>>}, {1}, {FALSE}, {FALSE})
  /\ MmIdle /\ RingIdle
  /\ \E dim \in 1..MaxDim : input \in Matrices(dim)
  /\ band = <<>>
  /\ calls = NoCalls
  /\ compared = {}

\* is_sorted = TRUE; i = 0;
CheckBegin ==
  /\ pc[MASTER] = "start"
  /\ matrix' = input
  /\ DIMENSION' = [DIMENSION EXCEPT ![MASTER] = Length(input)]
  /\ is_sorted' = [is_sorted EXCEPT ![MASTER] = 1]
  /\ i' = [i EXCEPT ![MASTER] = 0]
  /\ pc' = [pc EXCEPT ![MASTER] = "below"]
  /\ UNCHANGED <<checkIdle, j, current_row, current_column, compared>>

\* The test of an outer loop on counter k: the inner loop begins at (r, c), or
\* the outer loop is left for the position after.
CheckOuter(at, k, r, c, inner, after) ==
  /\ pc[MASTER] = at
  /\ IF k < DIMENSION[MASTER] - 1 /\ is_sorted[MASTER] = 1
     THEN /\ current_row' = r
          /\ current_column' = c
          /\ pc' = [pc EXCEPT ![MASTER] = inner]
          /\ UNCHANGED j
     ELSE /\ j' = [j EXCEPT ![MASTER] = 0]
          /\ pc' = [pc EXCEPT ![MASTER] = after]
          /\ UNCHANGED <<current_row, current_column>>
  /\ UNCHANGED <<checkIdle, matrix, DIMENSION, is_sorted, i, compared>>

\* for (i = 0; i < DIMENSION - 1 && is_sorted == TRUE; i++)
\*     for (current_row = i, current_column = 0; ...
CheckBelow == CheckOuter("below", i[MASTER], i[MASTER], 0, "down", "above")

\* for (j = 0; j < DIMENSION - 1 && is_sorted == TRUE; j++)
\*     for (current_row = 0, current_column = j; ...
CheckAbove == CheckOuter("above", j[MASTER], 0, j[MASTER], "right", "checked")

\* One turn of an inner loop whose test is on bound: the comparison and
\* current_row++, current_column++, or the end of the loop and the outer
\* loop's increment.
CheckInner(at, bound, outer) ==
  /\ pc[MASTER] = at
  /\ IF bound < DIMENSION[MASTER] - 1 /\ is_sorted[MASTER] = 1
     THEN /\ \E a \in CellValues(matrix, DIMENSION[MASTER], current_row, current_column),
                b \in CellValues(matrix, DIMENSION[MASTER],
                                 current_row + 1, current_column + 1) :
               is_sorted' = [is_sorted EXCEPT ![MASTER] = IF OutOfOrder(a, b) THEN 0 ELSE @]
          /\ compared' = compared \cup {<<current_row, current_column>>}
          /\ current_row' = current_row + 1
          /\ current_column' = current_column + 1
          /\ UNCHANGED <<pc, i, j>>
     ELSE /\ pc' = [pc EXCEPT ![MASTER] = outer]
          /\ i' = [i EXCEPT ![MASTER] = IF outer = "below" THEN @ + 1 ELSE @]
          /\ j' = [j EXCEPT ![MASTER] = IF outer = "above" THEN @ + 1 ELSE @]
          /\ UNCHANGED <<is_sorted, compared, current_row, current_column>>
  /\ UNCHANGED <<checkIdle, matrix, DIMENSION>>

\* ... current_row < DIMENSION - 1 && is_sorted == TRUE; current_row++, current_column++)
CheckDown == CheckInner("down", current_row, "below")

\* ... current_column < DIMENSION - 1 && is_sorted == TRUE; current_row++, current_column++)
CheckRight == CheckInner("right", current_column, "above")

NextCheck == CheckBegin \/ CheckBelow \/ CheckDown \/ CheckAbove \/ CheckRight

SpecCheck == InitCheck /\ [][NextCheck]_vars

\* The pairs of the claim: (r, c) with (r + 1, c + 1), both in the matrix.
DiagonalPairs(dim) == (0..(dim - 2)) \X (0..(dim - 2))

\* C19: for every dimension from 1 and every matrix, when the two loops have
\* ended is_sorted is TRUE exactly if M[r][c] <= M[r+1][c+1] for all r, c in
\* 0..DIMENSION-2, as DiagonalCheck says; every such pair has been compared
\* unless a compared pair was out of order; and at every moment the cells
\* compared lie in the matrix together with their lower right neighbours.
C19_CheckerCorrect ==
  LET dim == DIMENSION[MASTER] IN
  /\ \A p \in compared : InMatrix(dim, p[1], p[2]) /\ InMatrix(dim, p[1] + 1, p[2] + 1)
  /\ pc[MASTER] = "checked" =>
       /\ is_sorted[MASTER] = 1 <=> SnakeOrdered(matrix, dim)
       /\ is_sorted[MASTER] = DiagonalCheck(matrix, dim)
       /\ \/ DiagonalPairs(dim) \subseteq compared
          \/ \E p \in compared : matrix[p[1]][p[2]] > matrix[p[1] + 1][p[2] + 1]

\* The check has passed a matrix of dimension MaxDim of different values,
\* after comparing every pair.
C19_Witness ==
  /\ pc[MASTER] = "checked"
  /\ DIMENSION[MASTER] = MaxDim
  /\ is_sorted[MASTER] = 1
  /\ matrix[0][0] < matrix[MaxDim - 1][MaxDim - 1]
  /\ compared = DiagonalPairs(MaxDim)

\* ------------------------------------------------- the end of the timed run
\* The master has taken the end timestamp: end = time(NULL) (shearsort.c 309)
\* and program_end = time(NULL) (oetsort.c 378) come before the summary.
EndTimestampTaken == pc[MASTER] = "exited" /\ summary

\* Rank r has gone through all its sort phases and returned 0.
SortPhasesDone(r) == pc[r] = "exited" /\ exitCode[r] = 0

\* C20 (as claimed): in both sort programs a rank that has ended its sort
\* phases has called the barrier, and the master has the end timestamp of the
\* run only when every rank has reached the barrier.
C20_BarrierBeforeTiming ==
  prog \in {"shearsort", "oetsort"} =>
    /\ \A r \in Ranks : SortPhasesDone(r) => r \in barrier
    /\ EndTimestampTaken => barrier = Ranks

\* ------------------------------------------------ the split of rows and columns
\* The row loop of rank r has ended in this super-step: i[r] counts the rows r
\* has sorted in it, one in each turn of the loop.
RowLoopLeft(r) ==
  IF r = MASTER THEN pc[r] \in {"o_col_send", "o_col_sort", "o_col_recv", "o_check"}
  ELSE pc[r] \in {"ow_col_recv", "ow_col_send", "ow_flag_recv"}

\* The column loop of rank r has ended in this super-step: j[r] counts the
\* columns r has sorted in it.
ColumnLoopLeft(r) ==
  IF r = MASTER THEN pc[r] = "o_check" ELSE pc[r] = "ow_flag_recv"

\* Rank r has sorted rows rows, and columns columns if its column loop has ended.
LoadOf(r, rows, columns) ==
  /\ RowLoopLeft(r) => i[r] = rows
  /\ ColumnLoopLeft(r) => j[r] = columns

MasterPhase ==
  IF pc[MASTER] \in {"start", "initialize"} THEN "Initializing"
  ELSE IF pc[MASTER] \in {"row_send", "row_recv", "row_sort", "final_send", "final_recv",
                          "o_row_send", "o_row_sort", "o_row_recv"} THEN "RowPhase"
  ELSE IF pc[MASTER] \in {"col_send", "col_recv", "col_sort",
                          "o_col_send", "o_col_sort", "o_col_recv"} THEN "ColumnPhase"
  ELSE IF pc[MASTER] \in {"check", "o_check", "o_flag_send"} THEN "ConvergenceCheck"
  ELSE "Ended"

\* A message of the kind is on its way between two ranks.
InFlight(kind) ==
  \E p \in Ranks \X Ranks : \E k \in 1..Len(chan[p]) : chan[p][k].kind = kind

\* A row band is out of the matrix: on its way, or at a worker that has yet
\* to send it back.
RowsOut ==
  \/ InFlight("row")
  \/ \E r \in Ranks \ {MASTER} : pc[r] \in {"w_row_send", "w_final_send", "ow_row_send"}

\* A column band is out of the matrix.
ColumnsOut ==
  \/ InFlight("col")
  \/ \E r \in Ranks \ {MASTER} : pc[r] \in {"w_col_send", "ow_col_send"}

\* Every band of the phase before is back in the matrix.
PhasesApart ==
  /\ MasterPhase = "ColumnPhase" => ~RowsOut
  /\ MasterPhase = "RowPhase" => ~ColumnsOut
  /\ MasterPhase = "ConvergenceCheck" => ~ColumnsOut /\ ~RowsOut

\* RowPhase -> ColumnPhase -> ConvergenceCheck or the next RowPhase, and from
\* the check to the next RowPhase or to the end; a launch that is refused ends
\* while Initializing.
ClaimedSteps ==
  {<<"Initializing", "RowPhase">>, <<"Initializing", "Ended">>,
   <<"RowPhase", "ColumnPhase">>,
   <<"ColumnPhase", "ConvergenceCheck">>, <<"ColumnPhase", "RowPhase">>,
   <<"ConvergenceCheck", "RowPhase">>, <<"ConvergenceCheck", "Ended">>}

\* The master of shear sort goes from its last row phase to the check.
LastRowPhaseToCheck ==
  /\ prog = "shearsort"
  /\ pc[MASTER] = "final_recv"
  /\ pc'[MASTER] = "check"

\* C22 (as claimed): in both programs the master is in a column phase only
\* when every row band is back in the matrix, and in the check or in the next
\* row phase only when every column band is back; its phases follow RowPhase ->
\* ColumnPhase -> ConvergenceCheck or next RowPhase, none skipped.
C22_PhaseOrderStrict ==
  /\ [](prog \in {"shearsort", "oetsort"} => PhasesApart)
  /\ [][(prog \in {"shearsort", "oetsort"} /\ MasterPhase' # MasterPhase)
          => <<MasterPhase, MasterPhase'>> \in ClaimedSteps]_vars

\* C22 (amended): as claimed, except that in shear sort the one last row
\* phase is followed by the check with no column phase between.
C22_PhaseOrder ==
  /\ [](prog \in {"shearsort", "oetsort"} => PhasesApart)
  /\ [][(prog \in {"shearsort", "oetsort"} /\ MasterPhase' # MasterPhase)
          => \/ <<MasterPhase, MasterPhase'>> \in ClaimedSteps
             \/ LastRowPhaseToCheck]_vars

\* Shear sort on three ranks is in its check after a super-step and the last
\* row phase, with every band back in the matrix.
C22_Witness ==
  /\ prog = "shearsort"
  /\ nprocs = 3
  /\ pc[MASTER] = "check"
  /\ program_counter[MASTER] >= 1
  /\ ~RowsOut
  /\ ~ColumnsOut

\* ------------------------------------------------------------ blocked ranks
\* The send rank r is in: <<destination, tag>>, or <<>> when it is not in a
\* send.
Sending(r) ==
  IF r = MASTER
  THEN IF destination >= NUMBER_OF_PROCESSES[r] THEN <<>>
       ELSE IF pc[r] \in {"row_send", "final_send", "o_row_send"}
       THEN <<destination, ROW_TAG>>
       ELSE IF pc[r] \in {"col_send", "o_col_send"} THEN <<destination, COLUMN_TAG>>
       ELSE IF pc[r] = "o_flag_send" THEN <<destination, IS_SORTED_TAG>>
       ELSE <<>>
  ELSE IF pc[r] \in {"w_row_send", "w_final_send", "ow_row_send"} THEN <<MASTER, ROW_TAG>>
  ELSE IF pc[r] \in {"w_col_send", "ow_col_send"} THEN <<MASTER, COLUMN_TAG>>
  ELSE <<>>

\* Rank r is in a send that cannot return yet or in a receive with no message
\* to match.
Blocked(r) ==
  \/ Sending(r) # <<>> /\ ~CanSend(r, Sending(r)[1], Sending(r)[2])
  \/ Posted(r) # <<>> /\ ~CanRecv(Posted(r)[1], r, Posted(r)[2])

\* Rank d takes a message off a channel in this step.
Receives(d) ==
  /\ d \in Ranks
  /\ Posted(d) # <<>>
  /\ Posted(d)[1] \in Ranks
  /\ Len(chan'[<<Posted(d)[1], d>>]) < Len(chan[<<Posted(d)[1], d>>])

\* The count of the receive rank d has posted: one MPI_UNSIGNED_SHORT for the
\* flag, DIMENSION integers (or one column_type of DIMENSION integers) for a band.
PostedCount(d) == IF pc[d] = "ow_flag_recv" THEN 1 ELSE DIMENSION[d]

Rendezvous == prog \in {"shearsort", "oetsort"} /\ ~eager

\* Rank r has left main() or died.
Ended(r) == pc[r] \in {"exited", "crashed"}

\* The rank that rank r, in a send or a receive, waits for.
Peer(r) == IF Sending(r) # <<>> THEN Sending(r)[1] ELSE Posted(r)[1]

\* A blocked rank r can still be matched: the rank it waits for has not ended,
\* and some rank that has not ended is not blocked and so takes a step.
Matchable(r) ==
  /\ Peer(r) \in Ranks
  /\ ~Ended(Peer(r))
  /\ \E q \in Ranks : ~Ended(q) /\ ~Blocked(q)

\* C23: with rendezvous sends, in shear sort and in transposition sort a rank
\* blocked in a send or a receive waits for a rank that has not ended while
\* some rank can still take a step (no state is a deadlock); the message a
\* receive takes has the tag and the count of the receive; and when all ranks
\* have ended no message is left unreceived.
C23_DeadlockFree ==
  /\ [](Rendezvous => \A r \in Ranks : Blocked(r) => Matchable(r))
  /\ [][\A d \in 0..(MaxProcs - 1) :
          (Rendezvous /\ Receives(d)) =>
            LET msg == Arrived(Posted(d)[1], d, Posted(d)[2])
            IN msg.tag = Posted(d)[2] /\ msg.count = PostedCount(d)]_vars
  /\ []((Rendezvous /\ \A r \in Ranks : Ended(r))
          => \A p \in Ranks \X Ranks : chan[p] = <<>>)

\* Under rendezvous three ranks of transposition sort have ended after two
\* super-steps, and so after every row, column and flag message of them.
C23_Witness ==
  /\ prog = "oetsort"
  /\ ~eager
  /\ nprocs = 3
  /\ checks = 2
  /\ \A r \in Ranks : pc[r] = "exited" /\ exitCode[r] = 0
  /\ \A p \in Ranks \X Ranks : chan[p] = <<>>

\* ---------------------------------------------------------- the own bands
\* The controller is at the sort of its own row or column band.
MasterSortsOwnBand == pc[MASTER] \in {"row_sort", "col_sort", "o_row_sort", "o_col_sort"}

\* C24: in both sort programs the controller is never in a send to rank 0 nor
\* in a receive from rank 0, no message is ever in flight from rank 0 to rank
\* 0, and the step that sorts the controller's own row or column band changes
\* the matrix (or the local copy) only, no channel.
C24_NoSelfMessaging ==
  /\ [](prog \in {"shearsort", "oetsort"} =>
          /\ Sending(MASTER) # <<>> => Sending(MASTER)[1] # MASTER
          /\ Posted(MASTER) # <<>> => Posted(MASTER)[1] # MASTER
          /\ chan[<<MASTER, MASTER>>] = <<>>)
  /\ [][(prog \in {"shearsort", "oetsort"} /\ MasterSortsOwnBand /\ pc'[MASTER] # pc[MASTER])
          => chan' = chan]_vars

\* The controller of three ranks has sorted its own row band, now ascending
\* and not constant, after the bands of the workers went out and came back as
\* messages.
C24_Witness ==
  /\ prog = "shearsort"
  /\ nprocs = 3
  /\ pc[MASTER] = "col_send"
  /\ program_counter[MASTER] = 0
  /\ matrix[0][0] <= matrix[0][1]
  /\ matrix[0][1] <= matrix[0][2]
  /\ matrix[0][0] < matrix[0][2]
  /\ chan[<<MASTER, MASTER>>] = <<>>

\* ------------------------------------------------- the paired passes alone
\* A band of 1..MaxLen elements is given to one of esort(), ersort(), osort()
\* and orsort() of oetsort.c, which is then called on it up to MaxLen + 1
\* times; compared holds the pairs of positions the last call visited.
PairPass(op, row, length) ==
  IF op = "esort" THEN esort(row, length)
  ELSE IF op = "ersort" THEN ersort(row, length)
  ELSE IF op = "osort" THEN osort(row, length)
  ELSE orsort(row, length)

\* The first index of the loop of a pass: i = 0 in esort/ersort, i = 1 in
\* osort/orsort.
FirstIndex(op) == IF op \in {"esort", "ersort"} THEN 0 ELSE 1

CallPairPass(op) ==
  /\ calls.op \in {"none", op}
  /\ calls.n < MaxLen + 1
  /\ calls' = [op |-> op, n |-> calls.n + 1]
  /\ band' = PairPass(op, band, Length(band))
  /\ compared' = PairPassVisits(FirstIndex(op), Length(band))
  /\ UNCHANGED <<sortVars, input>>

CallEsort == CallPairPass("esort")
CallErsort == CallPairPass("ersort")
CallOsort == CallPairPass("osort")
CallOrsort == CallPairPass("orsort")

NextPair == CallEsort \/ CallErsort \/ CallOsort \/ CallOrsort

SpecPair == InitFn /\ [][NextPair]_vars

\* The pairs the claim gives a pass that starts at index from on a band of
\* the given length: (from, from+1), (from+2, from+3), ...
ClaimedPairs(from, length) ==
  {<<a, a + 1>> : a \in {k \in from..(length - 2) : (k - from) % 2 = 0}}

\* Position k is in none of the pairs.
Unpaired(k, pairs) == \A p \in pairs : p[1] # k /\ p[2] # k

\* C25: every call of esort/ersort visits only the pairs (0,1),(2,3),... and
\* every call of osort/orsort only the pairs (1,2),(3,4),... of a band of any
\* length 1..MaxLen; afterwards each pair holds the two values it held, as
\* they were or exchanged, every position outside the pairs holds what it
\* held, the band is a permutation of the band before, element 0 is unchanged
\* by osort/orsort, and a last element without partner (even pass on an odd
\* length, odd pass on an even length) is unchanged.
C25_PairedPasses ==
  [][calls'.n = calls.n + 1 =>
       LET length == Length(band)
           from == FirstIndex(calls'.op)
           pairs == ClaimedPairs(from, length)
       IN /\ compared' = pairs
          /\ \A p \in pairs :
               \/ band'[p[1]] = band[p[1]] /\ band'[p[2]] = band[p[2]]
               \/ band'[p[1]] = band[p[2]] /\ band'[p[2]] = band[p[1]]
          /\ \A k \in 0..(length - 1) : Unpaired(k, pairs) => band'[k] = band[k]
          /\ Length(band') = length
          /\ SameElements(band, band', length)
          /\ from = 1 => band'[0] = band[0]
          /\ (length % 2 = 1 - from) => band'[length - 1] = band[length - 1]]_vars

\* An odd pass over four elements has exchanged the middle pair and left the
\* first and the last element, out of order with their neighbours, alone.
C25_Witness ==
  /\ calls = [op |-> "osort", n |-> 1]
  /\ Length(band) = 4
  /\ input = [k \in 0..3 |-> IF k \in {0, 1} THEN 2 ELSE IF k = 2 THEN 1 ELSE 0]
  /\ band = [k \in 0..3 |-> IF k \in {0, 2} THEN 2 ELSE IF k = 1 THEN 1 ELSE 0]
  /\ compared = {<<1, 2>>}

\* ------------------------------------------------- the bounds of the band
\* The memory image after the call op makes on band b with the given word in
\* front of it.
ImageAfter(op, b, length, outside) ==
  IF op = "sort" THEN sort(Image(b, length, outside), length)
  ELSE rsort(Image(b, length, outside), length)

\* C26 (as claimed): a call of sort() or rsort() on a band of any length
\* 1..MaxLen reads and writes the band only: the band it leaves is the same
\* whatever the word in front of the band (index -1) holds, and that word is
\* afterwards what it was.
C26_BandBounds ==
  [][(calls'.op \in {"sort", "rsort"} /\ calls'.n = calls.n + 1) =>
       \A outside \in Elems :
         LET after == ImageAfter(calls'.op, band, Length(band), outside)
         IN /\ after[-1] = outside
            /\ band' = BandOf(after, Length(band))]_vars

\* ------------------------------------------- the phases, first matrix kept
\* A matrix and a number of processes that the program accepts are given, and
\* the phases of one of the sort programs are applied to the matrix in the
\* order of main(), each phase as one step with what the ranks do to the
\* bands.  band holds the controller's matrix, input the matrix first given,
\* calls.op the program and calls.n the number of phases done.

\* shearsort.c row phase: row k goes to rank k, row 0 is the controller's;
\* outs[k] is the word in front of the band at rank k.
ShearRowPhase(m, dim, outs) ==
  [r \in 0..(dim - 1) |->
     IF r = MASTER THEN SortedBand(ExtractRow(m, r), dim, outs[r])
     ELSE ShearWorkerRow(r, ExtractRow(m, r), dim, outs[r])]

\* shearsort.c column phase: column k goes to rank k, column 0 is the
\* controller's, and every rank calls sort().
ShearColumnPhase(m, dim, outs) ==
  [r \in 0..(dim - 1) |->
     [c \in 0..(dim - 1) |->
        ShearWorkerColumn(c, ExtractColumn(m, dim, c), dim, outs[c])[r]]]

\* shearsort.c last row phase: rows 1 .. DIMENSION - 1 go out and every
\* worker calls sort(); row 0 stays as it is.
ShearFinalPhase(m, dim, outs) ==
  [r \in 0..(dim - 1) |->
     IF r = MASTER THEN ExtractRow(m, r) ELSE SortedBand(ExtractRow(m, r), dim, outs[r])]

\* shearsort.c: the phase that follows n phases.
ShearPhaseAfter(n, dim) ==
  IF n < 2 * CeilLog2(dim) THEN (IF n % 2 = 0 THEN "rows" ELSE "columns")
  ELSE IF n = 2 * CeilLog2(dim) THEN "final"
  ELSE "check"

\* What PROCESS_ID may hold at the ranks of oetsort after n phases: the ranks,
\* or, once a flag was received, zero at every rank where the flag's second
\* byte falls on PROCESS_ID.
ProcessIds(n, np) ==
  {[k \in 0..(np - 1) |-> k]} \cup (IF n >= 2 THEN {[k \in 0..(np - 1) |-> 0]} ELSE {})

KeepPhase(program) ==
  /\ calls.op \in {"none", program}
  /\ calls' = [op |-> program, n |-> calls.n + 1]
  /\ UNCHANGED <<sortVars, input, compared>>

KeepShearRows ==
  /\ KeepPhase("shearsort")
  /\ ~ShearBadCount(Length(band), nprocs)
  /\ ShearPhaseAfter(calls.n, Length(band)) = "rows"
  /\ \E outs \in [0..(Length(band) - 1) -> OutsideWords] :
       band' = ShearRowPhase(band, Length(band), outs)

KeepShearColumns ==
  /\ KeepPhase("shearsort")
  /\ ShearPhaseAfter(calls.n, Length(band)) = "columns"
  /\ \E outs \in [0..(Length(band) - 1) -> OutsideWords] :
       band' = ShearColumnPhase(band, Length(band), outs)

KeepShearFinal ==
  /\ KeepPhase("shearsort")
  /\ ~ShearBadCount(Length(band), nprocs)
  /\ ShearPhaseAfter(calls.n, Length(band)) = "final"
  /\ \E outs \in [0..(Length(band) - 1) -> OutsideWords] :
       band' = ShearFinalPhase(band, Length(band), outs)

KeepOetRows ==
  /\ KeepPhase("oetsort")
  /\ calls.n % 2 = 0
  /\ calls.n < 2 * MaxPasses
  /\ calls.n > 0 => OetRepeat(DiagonalCheck(band, Length(band)))
  /\ \E ids \in ProcessIds(calls.n, nprocs) :
       band' = RowPhaseFrom(band, Length(band), nprocs, ids, 0)

KeepOetColumns ==
  /\ KeepPhase("oetsort")
  /\ calls.n % 2 = 1
  /\ band' = ColumnPhase(band, Length(band))

NextKeep ==
  \/ KeepShearRows
  \/ KeepShearColumns
  \/ KeepShearFinal
  \/ KeepOetRows
  \/ KeepOetColumns

SpecKeep == InitPass /\ [][NextKeep]_vars

\* The matrices a and b of dimension dim hold every value equally often.
SameMatrixElements(a, b, dim) ==
  \A v \in Values :
    Cardinality({p \in (0..(dim - 1)) \X (0..(dim - 1)) : a[p[1]][p[2]] = v})
      = Cardinality({p \in (0..(dim - 1)) \X (0..(dim - 1)) : b[p[1]][p[2]] = v})

\* C27 (as claimed): in both sort programs the controller's matrix after every
\* phase, and so at every phase boundary and at termination, is a permutation
\* of the matrix first given.
C27_MultisetPreserved ==
  calls.op \in {"shearsort", "oetsort"} => SameMatrixElements(band, input, Length(band))

\* The same for transposition sort alone.
OetMultisetPreserved ==
  calls.op = "oetsort" => SameMatrixElements(band, input, Length(band))

\* ------------------------------------------------------ the shared tag 1
\* C28: in transposition sort, where IS_SORTED_TAG and ROW_TAG are both 1, the
\* message a worker takes in its receive of a row band is a row band of
\* DIMENSION integers, and the message it takes in its receive of the flag is
\* the one-element flag message of the check of the same super-step: the
\* worker has then read as many flags as the controller has made checks.
C28_SharedTag ==
  [][\A d \in 1..(MaxProcs - 1) :
       (prog = "oetsort" /\ IS_SORTED_TAG = ROW_TAG /\ Receives(d)) =>
         LET msg == Arrived(MASTER, d, Posted(d)[2])
         IN /\ pc[d] = "ow_row_recv" =>
                 msg.kind = "row" /\ msg.count = DIMENSION[d] /\ Length(msg.data) = DIMENSION[d]
            /\ pc[d] = "ow_flag_recv" =>
                 /\ msg.kind = "flag"
                 /\ msg.count = 1
                 /\ flags_read'[d] = checks]_vars

\* Worker 1 is in its receive of the flag while the flag of the first check
\* and, behind it, the row band of the second super-step wait in its channel,
\* both with tag 1.
C28_Witness ==
  /\ prog = "oetsort"
  /\ nprocs >= 2
  /\ pc[1] = "ow_flag_recv"
  /\ Len(chan[<<MASTER, 1>>]) = 2
  /\ chan[<<MASTER, 1>>][1].kind = "flag"
  /\ chan[<<MASTER, 1>>][2].kind = "row"
  /\ chan[<<MASTER, 1>>][1].tag = chan[<<MASTER, 1>>][2].tag

\* ------------------------------------------------- the bands and their ranks
\* The controller deals band idx of DIMENSION bands to rank r.
DealtTo(idx, r) ==
  /\ idx \in 0..(DIMENSION[MASTER] - 1)
  /\ r = RankOfBand(idx, NUMBER_OF_PROCESSES[MASTER])

\* The band and the rank the controller addresses where it stands: a send, its
\* own sort or a receive of the row phase or of the column phase.
AddressesInRange ==
  /\ (pc[MASTER] = "o_row_send" /\ destination < NUMBER_OF_PROCESSES[MASTER])
       => DealtTo(current_row, destination)
  /\ pc[MASTER] = "o_row_sort" => DealtTo(current_row, MASTER)
  /\ (pc[MASTER] = "o_row_recv" /\ source < NUMBER_OF_PROCESSES[MASTER])
       => DealtTo(previous_row, source)
  /\ (pc[MASTER] = "o_col_send" /\ destination < NUMBER_OF_PROCESSES[MASTER])
       => DealtTo(current_column, destination)
  /\ pc[MASTER] = "o_col_sort" => DealtTo(current_column, MASTER)
  /\ (pc[MASTER] = "o_col_recv" /\ source < NUMBER_OF_PROCESSES[MASTER])
       => DealtTo(previous_column, source)

\* C29: in transposition sort, for every number of processes that divides the
\* dimension, the controller addresses only rows and columns 0..DIMENSION-1;
\* band k goes to rank ((k mod P) + 1) mod P, which depends on k alone and so
\* is the same rank in every super-step; and in each super-step the rows and
\* the columns are dealt one after the other from 0 up to DIMENSION - 1, each
\* once: the index moves on by one with every band dealt and is DIMENSION
\* when the phase ends.
C29_Coverage ==
  /\ [](prog = "oetsort" => AddressesInRange)
  /\ [][prog = "oetsort" =>
          /\ current_row' # current_row =>
               \/ pc[MASTER] \in {"o_row_send", "o_row_sort"} /\ current_row' = current_row + 1
               \/ pc'[MASTER] = "o_row_send" /\ current_row' = 0 /\ i'[MASTER] = 0
               \/ pc[MASTER] = "o_col_sort"
          /\ current_column' # current_column =>
               \/ pc[MASTER] \in {"o_col_send", "o_col_sort"}
                    /\ current_column' = current_column + 1
               \/ pc'[MASTER] = "o_row_send" /\ current_column' = 0 /\ i'[MASTER] = 0
          /\ (pc[MASTER] = "o_row_recv" /\ pc'[MASTER] = "o_col_send")
               => current_row = DIMENSION[MASTER]
          /\ (pc[MASTER] = "o_col_recv" /\ pc'[MASTER] = "o_check")
               => current_column = DIMENSION[MASTER]]_vars

\* In the second super-step of three ranks on a 3 x 3 matrix the controller
\* is at the sort of its own row, row 2, after rows 0 and 1 went to ranks 1
\* and 2.
C29_Witness ==
  /\ prog = "oetsort"
  /\ nprocs = 3
  /\ DIMENSION[MASTER] = 3
  /\ checks = 1
  /\ pc[MASTER] = "o_row_sort"
  /\ current_row = 2
  /\ RankOfBand(0, 3) = 1 /\ RankOfBand(1, 3) = 2 /\ RankOfBand(2, 3) = MASTER

\* --------------------------------------------- the ranks of adjacent rows
\* The controller is about to deal row current_row: to send it or to sort it
\* itself.
DealsRow ==
  \/ pc[MASTER] = "o_row_send" /\ destination < NUMBER_OF_PROCESSES[MASTER]
  \/ pc[MASTER] = "o_row_sort"

\* The rank the row goes to.
AddressedRank == IF pc[MASTER] = "o_row_send" THEN destination ELSE MASTER

\* The rank of row current_row and the rank of the row above it differ in
\* parity.
RowAboveOtherParity ==
  AddressedRank % 2 # RankOfBand(current_row - 1, NUMBER_OF_PROCESSES[MASTER]) % 2

RowMajorOrdered(m, dim) ==
  /\ \A r \in 0..(dim - 1) : Ascending(m[r], dim)
  /\ \A r \in 0..(dim - 2) : \A c, cc \in 0..(dim - 1) : m[r][c] <= m[r + 1][cc]

\* Shear sort has reported "Matrix is sorted.".
ShearReportsSorted ==
  /\ prog = "shearsort"
  /\ checks >= 1
  /\ is_sorted[MASTER] = 1
  /\ pc[MASTER] \in {"report", "exited"}

\* C31 (as claimed): whenever shear sort reports that the matrix is sorted,
\* every row of the matrix, row 0 included, is non-decreasing and every
\* element of a row is at most every element of the next row.
C31_TotallyOrdered ==
  ShearReportsSorted => RowMajorOrdered(matrix, DIMENSION[MASTER])

\* ------------------------------------------- the matrix the loop ends on
\* Row k is fully sorted in the direction of the rank it is dealt to:
\* ascending at an even rank, descending at an odd one.
RowsSortedByRank(m, dim, np) ==
  \A k \in 0..(dim - 1) :
    IF RankOfBand(k, np) % 2 = 0 THEN Ascending(m[k], dim) ELSE Descending(m[k], dim)

ColumnsSorted(m, dim) ==
  \A c \in 0..(dim - 1) : Ascending(ExtractColumn(m, dim, c), dim)

\* The master of transposition sort has left its do loop.
OetLoopTerminated ==
  /\ prog = "oetsort"
  /\ checks >= 1
  /\ pc[MASTER] \in {"report", "exited"}

\* C32 (as claimed): whenever the loop of transposition sort has terminated,
\* every row of the matrix is fully sorted in the direction of its rank,
\* every column is fully ascending, and one further super-step would leave
\* the matrix as it is.
C32_FixedPoint ==
  OetLoopTerminated
    => /\ RowsSortedByRank(matrix, DIMENSION[MASTER], NUMBER_OF_PROCESSES[MASTER])
       /\ ColumnsSorted(matrix, DIMENSION[MASTER])
       /\ OetSuperStep(matrix, DIMENSION[MASTER], NUMBER_OF_PROCESSES[MASTER]) = matrix

\* ------------------------------------------------- the head of a run
\* Rank r has drawn its head of run k: head = rand() % NUMBER_OF_PROCESSES.
HasDrawn(r, k) ==
  /\ pc[r] \notin {"start", "crashed"}
  /\ rands[r] # <<>>
  /\ k \in DOMAIN rands[r]
  /\ \/ program_counter[r] > k
     \/ program_counter[r] = k /\ pc[r] # "r_loop"

HeadOfRun(r, k) == rands[r][k] % NUMBER_OF_PROCESSES[r]

\* In every run the ranks that have drawn hold the same head.
HeadsAgree ==
  prog = "sndrcv" =>
    \A r \in Ranks : \A s \in Ranks : \A k \in 0..(MaxRuns - 1) :
      (HasDrawn(r, k) /\ HasDrawn(s, k)) => HeadOfRun(r, k) = HeadOfRun(s, k)

\* The master holds one runtime for each run it has ended, in the order of
\* the runs: its own when it is the head, and otherwise the one the head of
\* the run has sent.
OneRuntimePerRun ==
  (prog = "sndrcv" /\ rands[MASTER] # <<>>) =>
    /\ Len(times) = (IF program_counter[MASTER] <= NUMBER_OF_RUNS
                     THEN program_counter[MASTER] ELSE NUMBER_OF_RUNS)
    /\ \A n \in 1..Len(times) :
         /\ times[n].run = n - 1
         /\ times[n].from = HeadOfRun(MASTER, n - 1)
         /\ times[n].kind = (IF times[n].from = MASTER THEN "own" ELSE "runtime")

\* Every rank has come to the loop over the runs; every rank has come to the
\* barrier after it.
AllInRuns ==
  prog = "sndrcv" /\ \A r \in Ranks : rands[r] # <<>>

AllAtBarrier ==
  \A r \in Ranks : pc[r] \in {"in_barrier", "exited"}

\* C33 (as claimed): in every run of sndrcv all processes use the same head,
\* the master obtains exactly one runtime for the run, from itself when it is
\* the head and otherwise from the one process that is the head, and the
\* processes reach the final barrier.
C33_HeadsAgree ==
  /\ []HeadsAgree
  /\ []OneRuntimePerRun
  /\ AllInRuns ~> AllAtBarrier

====
